---- MODULE Spec2Model ----
(***************************************************************************)
(* Model of the coldbrewer backend (src/backend/src/brewserver):            *)
(*   - the six brew strategies of brew_strategy.py (step functions and     *)
(*     their controller state), and                                        *)
(*   - the brew orchestration of server.py (the single current brew, the   *)
(*     request handlers, and the two asyncio tasks per brew).              *)
(*                                                                         *)
(* Numbers.  The Python code computes in floats; the model computes in     *)
(* fixed point.  Flow rates, errors, gains, controller outputs and the     *)
(* Kalman estimate are in thousandths (0.05 g/s is 50, kp = 1.0 is 1000,   *)
(* the output limit 10.0 is 10000); weights are in grams; times are in     *)
(* seconds; the PID integral is in thousandths of g (error * seconds);     *)
(* Kalman covariances are in millionths.  Division truncates toward 0.     *)
(*                                                                         *)
(* Optional values.  Python's Optional[float] is a sequence of length 0    *)
(* (None) or 1 (the value).                                                *)
(***************************************************************************)
EXTENDS Integers, Sequences, FiniteSets, TLC

\* ---------------------------------------------------------------------
\* Bounds of the model
\* ---------------------------------------------------------------------
MaxSteps == 3
MaxBrews == 2
MaxTicks == 1
MaxPos == 1
MaxAdaptSteps == 10
MaxSmithSteps == 4
MaxReadings == 3
MaxRetries == 3
MaxValveCalls == 5

\* ---------------------------------------------------------------------
\* Program constants (config.py and the from_params defaults)
\* ---------------------------------------------------------------------
COLDBREW_TARGET_FLOW_RATE == 50
COLDBREW_EPSILON == 8
COLDBREW_VALVE_INTERVAL_SECONDS == 60
COLDBREW_TARGET_WEIGHT_GRAMS == 1337
COLDBREW_VESSEL_WEIGHT_GRAMS == 229

KpDefault == 1000
KiDefault == 100
KdDefault == 50
OutputMin == -10000
OutputMax == 10000
IntegralLimit == 100000
Deadband == 100

KalmanQ == 1000
KalmanR == 100000
KalmanInitialError == 1000000

DeadTime == 30
PlantGain == 10
PlantTimeConstant == 10

Horizon == 15
QError == 1000
QControl == 100
QDelta == 500

KpLow == 500
KiLow == 50
KdLow == 20
KpMed == 1500
KiMed == 150
KdMed == 80
KpHigh == 2500
KiHigh == 250
KdHigh == 100
FlowRateLowThreshold == 30
FlowRateHighThreshold == 70
AdaptationRate == 10
SustainedErrorThreshold == 10
SustainedErrorTicks == 5
AdaptationCap == 2000
AdaptationFloor == 1000

\* ---------------------------------------------------------------------
\* Arithmetic helpers
\* ---------------------------------------------------------------------
None == <<>>
Some(v) == <<v>>

Abs(a) == IF a >= 0 THEN a ELSE -a
Max(a, b) == IF a >= b THEN a ELSE b
Min(a, b) == IF a <= b THEN a ELSE b

\* float division, truncated toward zero at the model's resolution
TDiv(a, b) == IF a >= 0 THEN a \div b ELSE -((-a) \div b)

\* math.exp(-n) in thousandths, n a non-negative integer
ExpNeg(n) ==
    CASE n = 0 -> 1000
      [] n = 1 -> 368
      [] n = 2 -> 135
      [] n = 3 -> 50
      [] n = 4 -> 18
      [] n = 5 -> 7
      [] n = 6 -> 2
      [] n = 7 -> 1
      [] OTHER -> 0

\* math.exp(-h / 100) in thousandths, for h hundredths below 1 (beyond
\* the tabulated values, the first three terms of the series)
ExpNegSmall(h) ==
    CASE h = 0 -> 1000
      [] h = 1 -> 990
      [] h = 2 -> 980
      [] h = 3 -> 970
      [] h = 4 -> 961
      [] h = 5 -> 951
      [] h = 6 -> 942
      [] h = 7 -> 932
      [] h = 8 -> 923
      [] h = 9 -> 914
      [] h = 10 -> 905
      [] OTHER -> 1000 - h * 10 + (h * h) \div 20

\* alpha = math.exp(-dt / plant_time_constant) if plant_time_constant > 0 else 0.0
Alpha(plant_time_constant, dt) ==
    IF plant_time_constant > 0
    THEN IF dt >= plant_time_constant
         THEN ExpNeg(dt \div plant_time_constant)
         ELSE ExpNegSmall((dt * 100) \div plant_time_constant)
    ELSE 0

\* ---------------------------------------------------------------------
\* model.py
\* ---------------------------------------------------------------------
ValveCommand == {"NOOP", "FORWARD", "BACKWARD", "STOP"}
BrewState == {"idle", "brewing", "paused", "completed", "error"}
BrewStrategyType ==
    {"default", "pid", "kalman_pid", "smith_predictor_advanced",
     "adaptive_gain_scheduling", "mpc"}

\* ---------------------------------------------------------------------
\* brew_strategy.py: strategy objects
\* ---------------------------------------------------------------------
\* KalmanFilter.__init__ as the strategies call it:
\* KalmanFilter(q=q, r=r, initial_estimate=target_flow_rate)
KalmanFilter(initial_estimate, initial_error) ==
    [x |-> initial_estimate,
     p |-> initial_error,
     is_initialized |-> initial_error < 1000000000]

\* KalmanFilter.update, returning the filter after the call
\* (the value returned by update is the x of the result)
KalmanUpdate(k, measurement) ==
    IF measurement = None THEN k
    ELSE IF ~k.is_initialized
    THEN [x |-> measurement[1], p |-> KalmanR, is_initialized |-> TRUE]
    ELSE LET x_pred == k.x
             p_pred == k.p + KalmanQ
             gain == TDiv(p_pred * 1000, p_pred + KalmanR)
         IN  [x |-> x_pred + TDiv(gain * (measurement[1] - x_pred), 1000),
              p |-> TDiv((1000 - gain) * p_pred, 1000),
              is_initialized |-> TRUE]

\* KalmanFilter.reset
KalmanReset(k) == [x |-> 0, p |-> 1000000, is_initialized |-> FALSE]

\* delay_samples = max(1, int(dead_time / valve_interval))
DelaySamplesFor(dead_time) ==
    Max(1, TDiv(dead_time, COLDBREW_VALVE_INTERVAL_SECONDS))

DelaySamples == DelaySamplesFor(DeadTime)

\* The __init__ of the six strategy classes: the controller state of a
\* freshly constructed strategy.  Fields a class does not have keep the
\* value given here and are never touched by its step.
NewStrategy(type) ==
    [type |-> type,
     integral |-> 0,
     prev_error |-> 0,
     prev_timestamp |-> None,
     kalman |-> KalmanFilter(COLDBREW_TARGET_FLOW_RATE, KalmanInitialError),
     model_state |-> 0,
     model_output |-> 0,
     prev_control |-> 0,
     is_initialized |-> FALSE,
     plant_time_constant |-> PlantTimeConstant,
     horizon |-> Horizon,
     q_error |-> QError,
     q_control |-> QControl,
     q_delta |-> QDelta,
     delay_buffer |-> <<>>,
     dead_time |-> DeadTime,
     delay_samples |-> DelaySamples,
     kp |-> IF type = "adaptive_gain_scheduling" THEN KpLow ELSE KpDefault,
     ki |-> IF type = "adaptive_gain_scheduling" THEN KiLow ELSE KiDefault,
     kd |-> IF type = "adaptive_gain_scheduling" THEN KdLow ELSE KdDefault,
     current_region |-> "low",
     sustained_error_count |-> 0,
     adaptation_factor |-> 1000,
     adaptation_rate |-> AdaptationRate]

\* self.coffee_target = target_weight - vessel_weight
CoffeeTarget == COLDBREW_TARGET_WEIGHT_GRAMS - COLDBREW_VESSEL_WEIGHT_GRAMS

\* the weight check with the scale reading compared to the coffee target
\* without taking the vessel off
WeightReachedGross(current_weight) ==
    /\ current_weight # None
    /\ current_weight[1] >= CoffeeTarget

\* coffee_weight = (current_weight - self.vessel_weight) if current_weight is not None else None
\* if coffee_weight is not None and coffee_weight >= self.coffee_target
WeightReached(current_weight) ==
    /\ current_weight # None
    /\ current_weight[1] - COLDBREW_VESSEL_WEIGHT_GRAMS >= CoffeeTarget

\* a deadband mapping whose band takes in its boundary
OutputToCommandInclusiveBand(output) ==
    IF Abs(output) <= Deadband
    THEN [cmd |-> "NOOP", interval |-> COLDBREW_VALVE_INTERVAL_SECONDS * 2, u |-> output]
    ELSE IF output > 0
    THEN [cmd |-> "FORWARD", interval |-> COLDBREW_VALVE_INTERVAL_SECONDS, u |-> output]
    ELSE [cmd |-> "BACKWARD", interval |-> COLDBREW_VALVE_INTERVAL_SECONDS, u |-> output]

\* the deadband mapping that ends the PID-family and MPC steps; u is the
\* local variable `output` the mapping is applied to
OutputToCommand(output) ==
    IF Abs(output) < Deadband
    THEN [cmd |-> "NOOP", interval |-> COLDBREW_VALVE_INTERVAL_SECONDS * 2, u |-> output]
    ELSE IF output > 0
    THEN [cmd |-> "FORWARD", interval |-> COLDBREW_VALVE_INTERVAL_SECONDS, u |-> output]
    ELSE [cmd |-> "BACKWARD", interval |-> COLDBREW_VALVE_INTERVAL_SECONDS, u |-> output]

\* what a step call returns (cmd, interval) and leaves behind: s is the
\* object state after the call, u the controller output of the call (0
\* where the call computes none)
Result(c, s) == [cmd |-> c.cmd, interval |-> c.interval, u |-> c.u, s |-> s]
StopResult(s) == [cmd |-> "STOP", interval |-> 0, u |-> 0, s |-> s]
NoFlowResult(s) ==
    [cmd |-> "NOOP", interval |-> COLDBREW_VALVE_INTERVAL_SECONDS, u |-> 0, s |-> s]

\* a dt that is the clock reading itself once a step has been stamped
StepDtWallClock(s, current_time) ==
    IF s.prev_timestamp # None
    THEN current_time
    ELSE COLDBREW_VALVE_INTERVAL_SECONDS

\* dt of a step: time since the previous step, or valve_interval
StepDt(s, current_time) ==
    IF s.prev_timestamp # None
    THEN current_time - s.prev_timestamp[1]
    ELSE COLDBREW_VALVE_INTERVAL_SECONDS

\* _compute_pid of the PID-family classes: returns the output and the
\* integral after the call.  The clamp is the source's
\* max(-limit, min(limit, limit)).
ComputePid(s, error, dt) ==
    LET p_term == TDiv(s.kp * error, 1000)
        integral1 == s.integral + error * dt
        integral2 == Max(-IntegralLimit, Min(IntegralLimit, IntegralLimit))
        i_term == TDiv(s.ki * integral2, 1000)
        d_term == IF dt > 0
                  THEN TDiv(s.kd * (error - s.prev_error), 1000 * dt)
                  ELSE 0
        output == p_term + i_term + d_term
    IN  [output |-> Max(OutputMin, Min(OutputMax, output)),
         integral |-> integral2,
         accumulated |-> integral1]

\* a threshold step whose dead band leaves out its boundary
DefaultStepStrictBand(s, current_flow_rate, current_weight, current_time) ==
    IF WeightReached(current_weight) THEN StopResult(s)
    ELSE IF current_flow_rate = None THEN NoFlowResult(s)
    ELSE IF Abs(COLDBREW_TARGET_FLOW_RATE - current_flow_rate[1]) < COLDBREW_EPSILON
    THEN [cmd |-> "NOOP", interval |-> COLDBREW_VALVE_INTERVAL_SECONDS * 2, u |-> 0, s |-> s]
    ELSE IF current_flow_rate[1] <= COLDBREW_TARGET_FLOW_RATE
    THEN [cmd |-> "FORWARD", interval |-> COLDBREW_VALVE_INTERVAL_SECONDS, u |-> 0, s |-> s]
    ELSE [cmd |-> "BACKWARD", interval |-> COLDBREW_VALVE_INTERVAL_SECONDS, u |-> 0, s |-> s]

\* DefaultBrewStrategy.step
DefaultStep(s, current_flow_rate, current_weight, current_time) ==
    IF WeightReached(current_weight) THEN StopResult(s)
    ELSE IF current_flow_rate = None THEN NoFlowResult(s)
    ELSE IF Abs(COLDBREW_TARGET_FLOW_RATE - current_flow_rate[1]) <= COLDBREW_EPSILON
    THEN [cmd |-> "NOOP", interval |-> COLDBREW_VALVE_INTERVAL_SECONDS * 2, u |-> 0, s |-> s]
    ELSE IF current_flow_rate[1] <= COLDBREW_TARGET_FLOW_RATE
    THEN [cmd |-> "FORWARD", interval |-> COLDBREW_VALVE_INTERVAL_SECONDS, u |-> 0, s |-> s]
    ELSE [cmd |-> "BACKWARD", interval |-> COLDBREW_VALVE_INTERVAL_SECONDS, u |-> 0, s |-> s]

\* a PID step that looks at the flow rate before the weight
PIDStepFlowFirst(s, current_flow_rate, current_weight, current_time) ==
    IF current_flow_rate = None THEN NoFlowResult(s)
    ELSE IF WeightReached(current_weight) THEN StopResult(s)
    ELSE LET error == COLDBREW_TARGET_FLOW_RATE - current_flow_rate[1]
             dt == StepDt(s, current_time)
             pid == ComputePid(s, error, dt)
         IN  Result(OutputToCommand(pid.output),
                    [s EXCEPT !.integral = pid.integral,
                              !.prev_error = error,
                              !.prev_timestamp = Some(current_time)])

\* PIDBrewStrategy.step
PIDStep(s, current_flow_rate, current_weight, current_time) ==
    IF WeightReached(current_weight) THEN StopResult(s)
    ELSE IF current_flow_rate = None THEN NoFlowResult(s)
    ELSE LET error == COLDBREW_TARGET_FLOW_RATE - current_flow_rate[1]
             dt == StepDt(s, current_time)
             pid == ComputePid(s, error, dt)
         IN  Result(OutputToCommand(pid.output),
                    [s EXCEPT !.integral = pid.integral,
                              !.prev_error = error,
                              !.prev_timestamp = Some(current_time)])

\* a Kalman-PID step that takes its timestamp before it looks at the flow
KalmanPIDStepStampsFirst(s, current_flow_rate, current_weight, current_time) ==
    IF WeightReached(current_weight) THEN StopResult(s)
    ELSE IF current_flow_rate = None
    THEN NoFlowResult([s EXCEPT !.prev_timestamp = Some(current_time)])
    ELSE LET kalman1 == KalmanUpdate(s.kalman, current_flow_rate)
             error == COLDBREW_TARGET_FLOW_RATE - kalman1.x
             dt == StepDt(s, current_time)
             pid == ComputePid(s, error, dt)
         IN  Result(OutputToCommand(pid.output),
                    [s EXCEPT !.kalman = kalman1,
                              !.integral = pid.integral,
                              !.prev_error = error,
                              !.prev_timestamp = Some(current_time)])

\* KalmanPIDBrewStrategy.step
KalmanPIDStep(s, current_flow_rate, current_weight, current_time) ==
    IF WeightReached(current_weight) THEN StopResult(s)
    ELSE IF current_flow_rate = None THEN NoFlowResult(s)
    ELSE LET kalman1 == KalmanUpdate(s.kalman, current_flow_rate)
             error == COLDBREW_TARGET_FLOW_RATE - kalman1.x
             dt == StepDt(s, current_time)
             pid == ComputePid(s, error, dt)
         IN  Result(OutputToCommand(pid.output),
                    [s EXCEPT !.kalman = kalman1,
                              !.integral = pid.integral,
                              !.prev_error = error,
                              !.prev_timestamp = Some(current_time)])

\* a delayed control signal that is 0.0 until the buffer is full
DelayedControlWhenFull(s) ==
    IF Len(s.delay_buffer) >= s.delay_samples THEN s.delay_buffer[1] ELSE 0

\* delayed_control = self.delay_buffer[0] if len(self.delay_buffer) > 0
\*                   else 0.0
DelayedControl(s) ==
    IF Len(s.delay_buffer) > 0 THEN s.delay_buffer[1] ELSE 0

\* an update of the plant model that never drops the oldest action
UpdatePlantModelKeepsAll(s, valve_command, dt) ==
    LET alpha == Alpha(s.plant_time_constant, dt)
        delayed_control == IF Len(s.delay_buffer) > 0 THEN s.delay_buffer[1] ELSE 0
        model1 == TDiv(alpha * s.model_output
                       + (1000 - alpha) * TDiv(PlantGain * delayed_control, 1000),
                       1000)
    IN  [s EXCEPT !.model_output = model1,
                  !.delay_buffer = Append(s.delay_buffer, valve_command)]

\* SmithPredictorAdvancedBrewStrategy._update_plant_model: the model
\* output and the delay buffer after the call
UpdatePlantModel(s, valve_command, dt) ==
    LET alpha == Alpha(s.plant_time_constant, dt)
        delayed_control == DelayedControl(s)
        model1 == TDiv(alpha * s.model_output
                       + (1000 - alpha) * TDiv(PlantGain * delayed_control, 1000),
                       1000)
        appended == Append(s.delay_buffer, valve_command)
    IN  [s EXCEPT !.model_output = model1,
                  !.delay_buffer = IF Len(appended) > s.delay_samples
                                   THEN Tail(appended) ELSE appended]

\* a Smith predictor step that takes its error from the filtered
\* measurement
SmithStepOnMeasurement(s, current_flow_rate, current_weight, current_time) ==
    IF WeightReached(current_weight) THEN StopResult(s)
    ELSE IF current_flow_rate = None THEN NoFlowResult(s)
    ELSE LET first == s.prev_timestamp = None
             dt == StepDt(s, current_time)
             s1 == IF first THEN [s EXCEPT !.model_output = current_flow_rate[1]]
                   ELSE s
             s2 == [s1 EXCEPT !.kalman = KalmanUpdate(s1.kalman, current_flow_rate)]
             last == ComputePid(s2, s2.prev_error, dt)
             s3 == IF ~first /\ s2.prev_error # 0
                   THEN [s2 EXCEPT !.integral = last.integral] ELSE s2
             last_command == IF s2.prev_error # 0 THEN last.output ELSE 0
             s4 == IF ~first THEN UpdatePlantModel(s3, last_command, dt) ELSE s3
             error == COLDBREW_TARGET_FLOW_RATE - s4.kalman.x
             pid == ComputePid(s4, error, dt)
         IN  Result(OutputToCommand(pid.output),
                    [s4 EXCEPT !.integral = pid.integral,
                               !.prev_error = error,
                               !.prev_timestamp = Some(current_time)])

\* SmithPredictorAdvancedBrewStrategy.step
SmithStep(s, current_flow_rate, current_weight, current_time) ==
    IF WeightReached(current_weight) THEN StopResult(s)
    ELSE IF current_flow_rate = None THEN NoFlowResult(s)
    ELSE LET first == s.prev_timestamp = None
             dt == StepDt(s, current_time)
             \* Initialize model on first step
             s1 == IF first THEN [s EXCEPT !.model_output = current_flow_rate[1]]
                   ELSE s
             s2 == [s1 EXCEPT !.kalman = KalmanUpdate(s1.kalman, current_flow_rate)]
             \* last_command = self._compute_pid(self.prev_error, dt)
             \*                if self.prev_error != 0 else 0.0
             last == ComputePid(s2, s2.prev_error, dt)
             s3 == IF ~first /\ s2.prev_error # 0
                   THEN [s2 EXCEPT !.integral = last.integral] ELSE s2
             last_command == IF s2.prev_error # 0 THEN last.output ELSE 0
             s4 == IF ~first THEN UpdatePlantModel(s3, last_command, dt) ELSE s3
             error == COLDBREW_TARGET_FLOW_RATE - s4.model_output
             pid == ComputePid(s4, error, dt)
         IN  Result(OutputToCommand(pid.output),
                    [s4 EXCEPT !.integral = pid.integral,
                               !.prev_error = error,
                               !.prev_timestamp = Some(current_time)])

\* candidates = [u_current + delta for delta in [-2.0, ..., 2.0]], in order
MpcDeltas == <<-2000, -1000, -500, -250, 0, 250, 500, 1000, 2000>>

\* MPCBrewStrategy._predict_plant_response and the cost loop of
\* _solve_mpc for one candidate: the cost of holding u for the steps
\* k .. horizon-1 from plant state `state` (in millionths).  Costs are in
\* units of 5e-7.
RECURSIVE MpcCost(_, _, _, _, _, _)
MpcCost(s, k, state, u, u_prev, alpha) ==
    IF k >= s.horizon THEN 0
    ELSE LET state1 == TDiv(alpha * state + (1000 - alpha) * PlantGain * u, 1000)
             error == TDiv(COLDBREW_TARGET_FLOW_RATE * 1000 - state1, 1000)
             delta_u == IF k = 0 THEN u - u_prev ELSE 0
         IN  TDiv(s.q_error * error * error, 500)
             + s.q_control * ((u * u) \div 500)
             + s.q_delta * ((delta_u * delta_u) \div 500)
             + MpcCost(s, k + 1, state1, u, u_prev, alpha)

\* the candidate of index i, clipped to the output limits
MpcCandidate(u_prev, i) ==
    Max(OutputMin, Min(OutputMax, u_prev + MpcDeltas[i]))

\* a scan that lets a later candidate of equal cost replace the best one
RECURSIVE MpcScanLastMinimum(_, _, _, _, _, _, _, _)
MpcScanLastMinimum(s, i, best_u, best_cost, has_best, u_prev, flow, alpha) ==
    IF i > Len(MpcDeltas) THEN best_u
    ELSE LET u == MpcCandidate(u_prev, i)
             cost == MpcCost(s, 0, flow * 1000, u, u_prev, alpha)
         IN  IF ~has_best \/ cost <= best_cost
             THEN MpcScanLastMinimum(s, i + 1, u, cost, TRUE, u_prev, flow, alpha)
             ELSE MpcScanLastMinimum(s, i + 1, best_u, best_cost, has_best, u_prev, flow, alpha)

\* the scan of _solve_mpc: `if cost < best_cost` keeps the first minimum
RECURSIVE MpcScan(_, _, _, _, _, _, _, _)
MpcScan(s, i, best_u, best_cost, has_best, u_prev, flow, alpha) ==
    IF i > Len(MpcDeltas) THEN best_u
    ELSE LET u == MpcCandidate(u_prev, i)
             cost == MpcCost(s, 0, flow * 1000, u, u_prev, alpha)
         IN  IF ~has_best \/ cost < best_cost
             THEN MpcScan(s, i + 1, u, cost, TRUE, u_prev, flow, alpha)
             ELSE MpcScan(s, i + 1, best_u, best_cost, has_best, u_prev, flow, alpha)

\* MPCBrewStrategy._solve_mpc
SolveMpc(s, current_flow_rate, dt) ==
    MpcScan(s, 1, s.prev_control, 0, FALSE, s.prev_control, current_flow_rate,
            Alpha(s.plant_time_constant, dt))

\* an MPC step that advances its plant model with the action it has just
\* selected
MPCStepAdvancesWithSelected(s, current_flow_rate, current_weight, current_time) ==
    IF WeightReached(current_weight) THEN StopResult(s)
    ELSE IF current_flow_rate = None THEN NoFlowResult(s)
    ELSE LET dt == StepDt(s, current_time)
             s1 == IF s.prev_timestamp = None
                   THEN [s EXCEPT !.model_state = current_flow_rate[1],
                                  !.is_initialized = TRUE]
                   ELSE s
             alpha == Alpha(s1.plant_time_constant, dt)
             output == SolveMpc(s1, current_flow_rate[1], dt)
             s2 == IF s1.is_initialized
                   THEN [s1 EXCEPT !.model_state =
                            TDiv(alpha * s1.model_state
                                 + (1000 - alpha) * TDiv(PlantGain * output, 1000),
                                 1000)]
                   ELSE s1
         IN  Result(OutputToCommand(output),
                    [s2 EXCEPT !.prev_control = output,
                               !.prev_timestamp = Some(current_time)])

\* MPCBrewStrategy.step
MPCStep(s, current_flow_rate, current_weight, current_time) ==
    IF WeightReached(current_weight) THEN StopResult(s)
    ELSE IF current_flow_rate = None THEN NoFlowResult(s)
    ELSE LET dt == StepDt(s, current_time)
             s1 == IF s.prev_timestamp = None
                   THEN [s EXCEPT !.model_state = current_flow_rate[1],
                                  !.is_initialized = TRUE]
                   ELSE s
             alpha == Alpha(s1.plant_time_constant, dt)
             s2 == IF s1.is_initialized
                   THEN [s1 EXCEPT !.model_state =
                            TDiv(alpha * s1.model_state
                                 + (1000 - alpha) * TDiv(PlantGain * s1.prev_control, 1000),
                                 1000)]
                   ELSE s1
             output == SolveMpc(s2, current_flow_rate[1], dt)
         IN  Result(OutputToCommand(output),
                    [s2 EXCEPT !.prev_control = output,
                               !.prev_timestamp = Some(current_time)])

\* AdaptiveGainSchedulingBrewStrategy._determine_region
DetermineRegion(flow_rate) ==
    IF flow_rate < FlowRateLowThreshold THEN "low"
    ELSE IF flow_rate > FlowRateHighThreshold THEN "high"
    ELSE "med"

\* self.gains[region]
BaseGains(region) ==
    CASE region = "low" -> [kp |-> KpLow, ki |-> KiLow, kd |-> KdLow]
      [] region = "med" -> [kp |-> KpMed, ki |-> KiMed, kd |-> KdMed]
      [] OTHER -> [kp |-> KpHigh, ki |-> KiHigh, kd |-> KdHigh]

\* an update of the gains that adapts from the fifth tick of a run on
UpdateGainsFromFifthTick(s, flow_rate, error) ==
    LET new_region == DetermineRegion(flow_rate)
        s1 == IF new_region # s.current_region
              THEN [s EXCEPT !.current_region = new_region,
                             !.adaptation_factor = AdaptationFloor,
                             !.sustained_error_count = 0]
              ELSE s
        count1 == s1.sustained_error_count + 1
        s2 == IF Abs(error) > SustainedErrorThreshold
              THEN [s1 EXCEPT !.sustained_error_count = count1,
                              !.adaptation_factor =
                                  IF count1 >= SustainedErrorTicks
                                  THEN Min(AdaptationCap, s1.adaptation_factor + s1.adaptation_rate)
                                  ELSE s1.adaptation_factor]
              ELSE [s1 EXCEPT !.sustained_error_count = 0,
                              !.adaptation_factor =
                                  Max(AdaptationFloor, s1.adaptation_factor - s1.adaptation_rate * 2)]
        base_gains == BaseGains(s2.current_region)
    IN  [s2 EXCEPT !.kp = TDiv(base_gains.kp * s2.adaptation_factor, 1000),
                   !.ki = TDiv(base_gains.ki * s2.adaptation_factor, 1000),
                   !.kd = TDiv(base_gains.kd * s2.adaptation_factor, 1000)]

\* an update of the gains that keeps the factor and the counter when the
\* region changes
UpdateGainsKeepsRun(s, flow_rate, error) ==
    LET new_region == DetermineRegion(flow_rate)
        s1 == IF new_region # s.current_region
              THEN [s EXCEPT !.current_region = new_region]
              ELSE s
        count1 == s1.sustained_error_count + 1
        s2 == IF Abs(error) > SustainedErrorThreshold
              THEN [s1 EXCEPT !.sustained_error_count = count1,
                              !.adaptation_factor =
                                  IF count1 > SustainedErrorTicks
                                  THEN Min(AdaptationCap, s1.adaptation_factor + s1.adaptation_rate)
                                  ELSE s1.adaptation_factor]
              ELSE [s1 EXCEPT !.sustained_error_count = 0,
                              !.adaptation_factor =
                                  Max(AdaptationFloor, s1.adaptation_factor - s1.adaptation_rate * 2)]
        base_gains == BaseGains(s2.current_region)
    IN  [s2 EXCEPT !.kp = TDiv(base_gains.kp * s2.adaptation_factor, 1000),
                   !.ki = TDiv(base_gains.ki * s2.adaptation_factor, 1000),
                   !.kd = TDiv(base_gains.kd * s2.adaptation_factor, 1000)]

\* an update of the gains that does not cap the adaptation factor
UpdateGainsUncapped(s, flow_rate, error) ==
    LET new_region == DetermineRegion(flow_rate)
        s1 == IF new_region # s.current_region
              THEN [s EXCEPT !.current_region = new_region,
                             !.adaptation_factor = AdaptationFloor,
                             !.sustained_error_count = 0]
              ELSE s
        count1 == s1.sustained_error_count + 1
        s2 == IF Abs(error) > SustainedErrorThreshold
              THEN [s1 EXCEPT !.sustained_error_count = count1,
                              !.adaptation_factor =
                                  IF count1 > SustainedErrorTicks
                                  THEN s1.adaptation_factor + s1.adaptation_rate
                                  ELSE s1.adaptation_factor]
              ELSE [s1 EXCEPT !.sustained_error_count = 0,
                              !.adaptation_factor =
                                  Max(AdaptationFloor, s1.adaptation_factor - s1.adaptation_rate * 2)]
        base_gains == BaseGains(s2.current_region)
    IN  [s2 EXCEPT !.kp = TDiv(base_gains.kp * s2.adaptation_factor, 1000),
                   !.ki = TDiv(base_gains.ki * s2.adaptation_factor, 1000),
                   !.kd = TDiv(base_gains.kd * s2.adaptation_factor, 1000)]

\* AdaptiveGainSchedulingBrewStrategy._update_gains (adaptation_enabled)
UpdateGains(s, flow_rate, error) ==
    LET new_region == DetermineRegion(flow_rate)
        s1 == IF new_region # s.current_region
              THEN [s EXCEPT !.current_region = new_region,
                             !.adaptation_factor = AdaptationFloor,
                             !.sustained_error_count = 0]
              ELSE s
        count1 == s1.sustained_error_count + 1
        s2 == IF Abs(error) > SustainedErrorThreshold
              THEN [s1 EXCEPT !.sustained_error_count = count1,
                              !.adaptation_factor =
                                  IF count1 > SustainedErrorTicks
                                  THEN Min(AdaptationCap, s1.adaptation_factor + s1.adaptation_rate)
                                  ELSE s1.adaptation_factor]
              ELSE [s1 EXCEPT !.sustained_error_count = 0,
                              !.adaptation_factor =
                                  Max(AdaptationFloor, s1.adaptation_factor - s1.adaptation_rate * 2)]
        base_gains == BaseGains(s2.current_region)
    IN  [s2 EXCEPT !.kp = TDiv(base_gains.kp * s2.adaptation_factor, 1000),
                   !.ki = TDiv(base_gains.ki * s2.adaptation_factor, 1000),
                   !.kd = TDiv(base_gains.kd * s2.adaptation_factor, 1000)]

\* AdaptiveGainSchedulingBrewStrategy.step
AdaptiveStep(s, current_flow_rate, current_weight, current_time) ==
    IF WeightReached(current_weight) THEN StopResult(s)
    ELSE IF current_flow_rate = None THEN NoFlowResult(s)
    ELSE LET error == COLDBREW_TARGET_FLOW_RATE - current_flow_rate[1]
             dt == StepDt(s, current_time)
             s1 == UpdateGains(s, current_flow_rate[1], error)
             pid == ComputePid(s1, error, dt)
         IN  Result(OutputToCommand(pid.output),
                    [s1 EXCEPT !.integral = pid.integral,
                               !.prev_error = error,
                               !.prev_timestamp = Some(current_time)])

\* strategy.step, dispatched on the class of the strategy object
StrategyStep(s, current_flow_rate, current_weight, current_time) ==
    CASE s.type = "default" -> DefaultStep(s, current_flow_rate, current_weight, current_time)
      [] s.type = "pid" -> PIDStep(s, current_flow_rate, current_weight, current_time)
      [] s.type = "kalman_pid" -> KalmanPIDStep(s, current_flow_rate, current_weight, current_time)
      [] s.type = "smith_predictor_advanced" -> SmithStep(s, current_flow_rate, current_weight, current_time)
      [] s.type = "adaptive_gain_scheduling" -> AdaptiveStep(s, current_flow_rate, current_weight, current_time)
      [] OTHER -> MPCStep(s, current_flow_rate, current_weight, current_time)

\* ---------------------------------------------------------------------
\* State
\* ---------------------------------------------------------------------
VARIABLES
    cur_brew,        \* server.py cur_brew: the Brew, or NoBrew for None
    next_id,         \* how many brew ids uuid.uuid4() has produced so far
    collectors,      \* live collect_scale_data_task tasks, per bound brew id
    controls,        \* live brew_step_task tasks, per bound brew id
    strategy,        \* the strategy object the latest accepted start_brew created
    scale,           \* server.py scale: "None", "disconnected" or "connected"
    valve_position,  \* MockValve.position
    now,             \* time.time()
    last,            \* the last operation and what it did (history)
    strat,           \* a strategy object driven directly through step
    out,             \* the last direct step call: inputs and returned tuple
    nsteps,          \* number of direct step calls made
    estimator,       \* a flow rate computation: the readings and the result
    retry,           \* a call of ErrorRecovery.retry_sync / retry_async
    motor            \* a MotorKitValve object and the stepper it drives

vars == <<cur_brew, next_id, collectors, controls, strategy, scale,
          valve_position, now, last, strat, out, nsteps,
          estimator, retry, motor>>
strat_vars == <<strat, out, nsteps>>
lib_vars == <<estimator, retry, motor>>

BrewIds == 1..MaxBrews

\* cur_brew: Brew | None = None
NoBrew == [id |-> 0, status |-> "none", strategy |-> "none",
           time_completed |-> FALSE, error_message |-> FALSE]

\* Brew(id=..., status=..., strategy=...)
Brew(id, status, strategy_type) ==
    [id |-> id, status |-> status, strategy |-> strategy_type,
     time_completed |-> FALSE, error_message |-> FALSE]

NoStrategy == NewStrategy("none")

\* what the last operation was and did:
\*   op: the handler or task; id: the brew id it was given or bound to;
\*   code: HTTP status of a handler (0 for a task tick);
\*   stale: a task tick that found its id not current;
\*   sampled / wrote: the scale was read / the time series written;
\*   stepped: strategy.step was called; cmd: what it returned;
\*   valve_calls: the valve methods called, in order;
\*   raised: the task body raised and the except clause ran;
\*   status: the status text of a pause or resume response;
\*   from: the status of the brew the operation found ("none": no brew);
\*   dirty: the strategy object the operation found had stepped on a flow
\*   rate (its prev_timestamp was set), so that its controller state was
\*   no longer the initial one.
Event(op, id, code) ==
    [op |-> op, id |-> id, code |-> code, from |-> cur_brew.status,
     dirty |-> strategy.prev_timestamp # None,
     stale |-> FALSE,
     sampled |-> FALSE, wrote |-> FALSE, stepped |-> FALSE, cmd |-> "",
     valve_calls |-> <<>>, raised |-> FALSE, status |-> ""]

NoCall ==
    [flow |-> None, weight |-> None, cmd |-> "", interval |-> 0, u |-> 0,
     run |-> 0, run_in_region |-> 0, pushed |-> <<>>, applied |-> <<>>]

\* abs(error) > 0.01 for error = target_flow_rate - flow_rate
LargeError(flow_rate) ==
    Abs(COLDBREW_TARGET_FLOW_RATE - flow_rate) > SustainedErrorThreshold

\* the record of a direct step call on strategy object s that returned r
\* (history): its inputs, the returned tuple and controller output, and
\* how many calls that got as far as the error, this one included, have
\* had a large error in a row (run), and how many of those in the flow
\* region of this call (run_in_region; the region before the first call
\* is the one the object is constructed with); for a Smith predictor,
\* the actions its plant model updates have pushed into the delay buffer
\* so far (pushed) and the delayed control signals the updates have
\* applied to the model (applied), one of each per update
CallRecord(prev, s, r, current_flow_rate, current_weight) ==
    LET counted == r.cmd # "STOP" /\ current_flow_rate # None
        large == counted /\ LargeError(current_flow_rate[1])
        same == counted /\ DetermineRegion(current_flow_rate[1]) = s.current_region
    IN  [flow |-> current_flow_rate, weight |-> current_weight,
         cmd |-> r.cmd, interval |-> r.interval, u |-> r.u,
         run |-> IF ~counted THEN prev.run
                 ELSE IF large THEN prev.run + 1 ELSE 0,
         run_in_region |-> IF ~counted THEN prev.run_in_region
                           ELSE IF ~large THEN 0
                           ELSE IF same THEN prev.run_in_region + 1 ELSE 1,
         pushed |-> prev.pushed, applied |-> prev.applied]

\* the step call on the Smith predictor s gets as far as
\* _update_plant_model: the weight is below the target, there is a flow
\* rate, and it is not the first step
PlantModelUpdated(s, current_flow_rate, current_weight) ==
    /\ ~WeightReached(current_weight)
    /\ current_flow_rate # None
    /\ s.prev_timestamp # None

\* ---------------------------------------------------------------------
\* time_series.py: the flow rate from the weight readings
\* ---------------------------------------------------------------------
\* readings.sort(key=lambda x: x[0]): list.sort is stable, so a reading is
\* put behind the readings of the same time that came before it
RECURSIVE SortByTime(_)
SortByTime(readings) ==
    IF readings = <<>> THEN <<>>
    ELSE LET n == Len(readings)
             x == readings[n]
             rest == SortByTime(SubSeq(readings, 1, n - 1))
             k == Cardinality({i \in 1..(n - 1) : rest[i][1] <= x[1]})
         IN  SubSeq(rest, 1, k) \o <<x>> \o SubSeq(rest, k + 1, n - 1)

\* get_recent_weight_readings: the (timestamp, weight) tuples of the
\* query, sorted by time ascending
GetRecentWeightReadings(points) == SortByTime(points)

\* a derivative taken between the last two readings
CalculateFlowRateLastPair(readings) ==
    IF Len(readings) < 2 THEN None
    ELSE LET prev == readings[Len(readings) - 1]
             curr == readings[Len(readings)]
             time_diff == curr[1] - prev[1]
         IN  IF time_diff <= 0 THEN None
             ELSE Some(TDiv((curr[2] - prev[2]) * 1000, time_diff))

\* calculate_flow_rate_from_derivatives: readings are (seconds, grams),
\* the rate is in thousandths of g/s
CalculateFlowRateFromDerivatives(readings) ==
    IF Len(readings) < 2 THEN None
    ELSE LET prev == readings[1]
             curr == readings[Len(readings)]
             time_diff == curr[1] - prev[1]
         IN  IF time_diff <= 0 THEN None
             ELSE LET weight_diff == curr[2] - prev[2]
                  IN  Some(TDiv(weight_diff * 1000, time_diff))

\* get_current_flow_rate on a time series that holds points
GetCurrentFlowRate(points) ==
    LET readings == GetRecentWeightReadings(points) IN
    IF readings = <<>> THEN None
    ELSE CalculateFlowRateFromDerivatives(readings)

\* a flow rate computation: the points the query finds, the readings the
\* derivative was taken of and the rate returned (called: it has run)
NewEstimator(points) ==
    [points |-> points, readings |-> <<>>, rate |-> None, called |-> FALSE]

\* ---------------------------------------------------------------------
\* exceptions.py and error_handling.py: the retry helper
\* ---------------------------------------------------------------------
\* what one invocation of the retried operation does: it returns ("ok")
\* or raises an exception of one of these classes
RaisedErrors ==
    {"ScaleReadError", "ValveTimeoutError", "ScaleNotFoundError",
     "ScaleBatteryLowError", "ValveOperationError", "OSError"}

Outcomes == {"ok"} \cup RaisedErrors

\* the retryable flag of the response handle_scale_error and
\* handle_valve_error build for an error
RetryableResponse(error) ==
    error \in {"ScaleReadError", "ValveTimeoutError", "ScaleBatteryLowError"}

\* an error taken as permanent when its response is not retryable
IsPermanentErrorByResponse(error) == ~RetryableResponse(error)

\* isinstance(error, PermanentError): the classes of exceptions.py
\* derived from PermanentError
IsPermanentError(error) ==
    error \in {"ScaleNotFoundError", "ScaleBatteryLowError", "ValveOperationError"}

\* a delay that doubles before the first retry already
RetryDelayDoubled(base_delay, attempt) == base_delay * (2 ^ (attempt + 1))

\* delay = self.base_delay * (2 ** attempt), in seconds
RetryDelay(base_delay, attempt) == base_delay * (2 ^ attempt)

\* one entry of the history of a retry call: an invocation of the
\* operation and its outcome, or a sleep and its delay
Invoked(outcome) == [op |-> "invoke", outcome |-> outcome, delay |-> 0]
Slept(delay) == [op |-> "sleep", outcome |-> "", delay |-> delay]

\* a call of retry_sync / retry_async on ErrorRecovery(max_retries,
\* base_delay) that has not started: attempt is the loop variable,
\* last_error the local of that name, pc where the call is ("call",
\* "invoke", "sleep", "returned", "raised"), raised the exception that
\* left the call, trace what it has done so far (history)
NewRetry(max_retries, base_delay) ==
    [max_retries |-> max_retries, base_delay |-> base_delay,
     attempt |-> 0, last_error |-> "None", pc |-> "call",
     raised |-> "", trace |-> <<>>]

\* the head of `for attempt in range(self.max_retries)` with attempt
\* the next value: the loop body is entered, or the loop is over and
\* `raise last_error` runs (raising None is a TypeError)
RetryLoop(r, attempt) ==
    IF attempt < r.max_retries
    THEN [r EXCEPT !.attempt = attempt, !.pc = "invoke"]
    ELSE [r EXCEPT !.pc = "raised",
                   !.raised = IF r.last_error = "None" THEN "TypeError"
                              ELSE r.last_error]

\* the try block and its except clauses, up to the sleep
RetryTry(r, outcome) ==
    LET r1 == [r EXCEPT !.trace = Append(@, Invoked(outcome))] IN
    IF outcome = "ok" THEN [r1 EXCEPT !.pc = "returned"]
    ELSE IF IsPermanentError(outcome)
    THEN [r1 EXCEPT !.pc = "raised", !.raised = outcome]
    ELSE [r1 EXCEPT !.last_error = outcome, !.pc = "sleep"]

\* time.sleep(delay) / await asyncio.sleep(delay) returns and the loop
\* goes on
RetrySlept(r) ==
    LET delay == RetryDelay(r.base_delay, r.attempt)
        r1 == [r EXCEPT !.trace = Append(@, Slept(delay))]
    IN  RetryLoop(r1, r.attempt + 1)

\* error_recovery = ErrorRecovery(max_retries=3, base_delay=1.0)
error_recovery == NewRetry(3, 1)

\* ---------------------------------------------------------------------
\* src/src/MotorKitValve.py and src/src/valve.py: the stepper motor valve
\* ---------------------------------------------------------------------
\* stepper.FORWARD and stepper.BACKWARD
StepperDirections == {"FORWARD", "BACKWARD"}

\* MotorKitValve(): breadcrumbs is the dict of __init__, as the sequence
\* of its (direction, count) items in insertion order; _breadcrumbs is
\* the attribute reset_breadcrumbs assigns ("unset" until then);
\* position is the net number of forward steps the stepper has made;
\* start is the position at construction or after the last
\* return_to_start that completed (history); op is the last method
\* called, raised the exception it raised, calls the number of calls
NewMotorKitValve ==
    [breadcrumbs |-> <<>>, _breadcrumbs |-> "unset", position |-> 0,
     released |-> FALSE, start |-> 0, op |-> "", raised |-> "", calls |-> 0]

\* breadcrumbs[direction], 0 for a direction that is not a key
Breadcrumb(breadcrumbs, direction) ==
    IF \E i \in DOMAIN breadcrumbs : breadcrumbs[i].direction = direction
    THEN LET i == CHOOSE j \in DOMAIN breadcrumbs :
                      breadcrumbs[j].direction = direction
         IN  breadcrumbs[i].count
    ELSE 0

\* flip_direction
FlipDirection(direction) ==
    IF direction = "FORWARD" THEN "BACKWARD" ELSE "FORWARD"

\* step: count the step in breadcrumbs, then motor.onestep
MotorStep(m, direction) ==
    LET known == \E i \in DOMAIN m.breadcrumbs :
                    m.breadcrumbs[i].direction = direction
        b1 == IF known THEN m.breadcrumbs
              ELSE Append(m.breadcrumbs, [direction |-> direction, count |-> 0])
        b2 == [i \in DOMAIN b1 |->
                  IF b1[i].direction = direction
                  THEN [b1[i] EXCEPT !.count = @ + 1] ELSE b1[i]]
    IN  [m EXCEPT !.breadcrumbs = b2,
                  !.position = @ + (IF direction = "FORWARD" THEN 1 ELSE -1),
                  !.released = FALSE]

\* step called n times
RECURSIVE MotorSteps(_, _, _)
MotorSteps(m, direction, n) ==
    IF n <= 0 THEN m ELSE MotorSteps(MotorStep(m, direction), direction, n - 1)

\* max(breadcrumbs, key=breadcrumbs.get): the first key, in insertion
\* order, whose count is the largest
MaxDirection(breadcrumbs) ==
    LET i == CHOOSE j \in DOMAIN breadcrumbs :
                 /\ \A k \in DOMAIN breadcrumbs :
                        breadcrumbs[k].count <= breadcrumbs[j].count
                 /\ \A k \in 1..(j - 1) :
                        breadcrumbs[k].count < breadcrumbs[j].count
    IN  breadcrumbs[i].direction

\* directions_to_start: (opp, count)
DirectionsToStart(breadcrumbs) ==
    LET max_direction == MaxDirection(breadcrumbs) IN
    [opp |-> FlipDirection(max_direction),
     count |-> Breadcrumb(breadcrumbs, max_direction)]

\* a return that steps back the difference of the two counts and empties
\* the dict of the steps
ReturnToStartByDifference(m) ==
    LET net == Breadcrumb(m.breadcrumbs, "FORWARD")
               - Breadcrumb(m.breadcrumbs, "BACKWARD")
        m1 == IF net >= 0 THEN MotorSteps(m, "BACKWARD", net)
              ELSE MotorSteps(m, "FORWARD", -net)
    IN  [m1 EXCEPT !.breadcrumbs = <<>>, !._breadcrumbs = "empty",
                   !.released = TRUE, !.start = m1.position, !.raised = ""]

\* return_to_start: max() of an empty dict raises ValueError; otherwise
\* step count times in the direction opp, reset_breadcrumbs (which
\* assigns _breadcrumbs, not breadcrumbs) and release
ReturnToStart(m) ==
    IF m.breadcrumbs = <<>> THEN [m EXCEPT !.raised = "ValueError"]
    ELSE LET d == DirectionsToStart(m.breadcrumbs)
             m1 == MotorSteps(m, d.opp, d.count)
         IN  [m1 EXCEPT !._breadcrumbs = "empty", !.released = TRUE,
                        !.start = m1.position, !.raised = ""]

\* the values of the three components while another part of the program
\* is looked at
LibInit ==
    /\ estimator = NewEstimator(<<>>)
    /\ retry = error_recovery
    /\ motor = NewMotorKitValve

OrchInit ==
    /\ cur_brew = NoBrew
    /\ next_id = 0
    /\ collectors = [b \in BrewIds |-> 0]
    /\ controls = [b \in BrewIds |-> 0]
    /\ strategy = NoStrategy
    /\ scale = "disconnected"
    /\ valve_position = 0
    /\ now = 0
    /\ last = Event("init", 0, 0)

Init ==
    /\ OrchInit
    /\ strat = NoStrategy
    /\ out = NoCall
    /\ nsteps = 0
    /\ LibInit

\* ---------------------------------------------------------------------
\* server.py: request handlers
\* ---------------------------------------------------------------------
\* the scale after `if scale is None or not scale.connected:
\*                      scale = create_scale(); scale.connect()`
Reconnect(sc, connect_ok) ==
    IF sc = "connected" THEN sc
    ELSE IF connect_ok THEN "connected" ELSE "disconnected"

\* a conflict check that forgets the paused brew
StartConflictBrewingOnly(brew) ==
    brew # NoBrew /\ brew.status = "brewing"

\* start_brew: cur_brew is not None and cur_brew.status in (BREWING, PAUSED)
StartConflict(brew) ==
    brew # NoBrew /\ brew.status \in {"brewing", "paused"}

\* a start that also replaces a brew that was acquired and is IDLE
StartAllowedOrIdle(brew) ==
    brew = NoBrew \/ brew.status \in {"completed", "error", "idle"}

\* start_brew: cur_brew is None or cur_brew.status in (COMPLETED, ERROR)
StartAllowed(brew) ==
    brew = NoBrew \/ brew.status \in {"completed", "error"}

\* the strategies the orchestrator is started with; StratSpec below steps
\* every strategy of BrewStrategyType
StartTypes == {"default", "pid"}

\* a start that keeps the strategy object of the brew before when the new
\* brew asks for the same strategy type
StartBrewKeepsStrategy(strategy_type, connect_ok) ==
    /\ UNCHANGED <<valve_position, now, strat_vars, lib_vars>>
    /\ IF StartConflict(cur_brew)
       THEN /\ last' = Event("start", 0, 409)
            /\ UNCHANGED <<cur_brew, next_id, collectors, controls, strategy, scale>>
       ELSE LET scale1 == Reconnect(scale, connect_ok) IN
            IF scale1 # "connected"
            THEN /\ scale' = scale1
                 /\ last' = Event("start", 0, 503)
                 /\ UNCHANGED <<cur_brew, next_id, collectors, controls, strategy>>
            ELSE IF StartAllowed(cur_brew)
            THEN LET new_id == next_id + 1 IN
                 /\ next_id < MaxBrews
                 /\ next_id' = new_id
                 /\ scale' = scale1
                 /\ cur_brew' = Brew(new_id, "brewing", strategy_type)
                 /\ strategy' = IF strategy.type = strategy_type
                                THEN strategy ELSE NewStrategy(strategy_type)
                 /\ collectors' = [collectors EXCEPT ![new_id] = @ + 1]
                 /\ controls' = [controls EXCEPT ![new_id] = @ + 1]
                 /\ last' = Event("start", new_id, 200)
            ELSE /\ scale' = scale1
                 /\ last' = Event("start", 0, 409)
                 /\ UNCHANGED <<cur_brew, next_id, collectors, controls, strategy>>

\* POST /api/brew/start
StartBrew(strategy_type, connect_ok) ==
    /\ UNCHANGED <<valve_position, now, strat_vars, lib_vars>>
    /\ IF StartConflict(cur_brew)
       THEN /\ last' = Event("start", 0, 409)
            /\ UNCHANGED <<cur_brew, next_id, collectors, controls, strategy, scale>>
       ELSE LET scale1 == Reconnect(scale, connect_ok) IN
            IF scale1 # "connected"
            THEN /\ scale' = scale1
                 /\ last' = Event("start", 0, 503)
                 /\ UNCHANGED <<cur_brew, next_id, collectors, controls, strategy>>
            ELSE IF StartAllowed(cur_brew)
            THEN LET new_id == next_id + 1 IN
                 /\ next_id < MaxBrews
                 /\ next_id' = new_id
                 /\ scale' = scale1
                 /\ cur_brew' = Brew(new_id, "brewing", strategy_type)
                 /\ strategy' = NewStrategy(strategy_type)
                 /\ collectors' = [collectors EXCEPT ![new_id] = @ + 1]
                 /\ controls' = [controls EXCEPT ![new_id] = @ + 1]
                 /\ last' = Event("start", new_id, 200)
            ELSE /\ scale' = scale1
                 /\ last' = Event("start", 0, 409)
                 /\ UNCHANGED <<cur_brew, next_id, collectors, controls, strategy>>

\* an acquire that starts a collector on every call, also for a brew that
\* is already there
AcquireBrewAlwaysSpawns ==
    /\ UNCHANGED <<controls, strategy, scale, valve_position, now, strat_vars, lib_vars>>
    /\ IF cur_brew = NoBrew
       THEN LET new_id == next_id + 1 IN
            /\ next_id < MaxBrews
            /\ next_id' = new_id
            /\ cur_brew' = Brew(new_id, "idle", "default")
            /\ collectors' = [collectors EXCEPT ![new_id] = @ + 1]
            /\ last' = Event("acquire", new_id, 200)
       ELSE /\ collectors' = [collectors EXCEPT ![cur_brew.id] = @ + 1]
            /\ last' = Event("acquire", 0, 200)
            /\ UNCHANGED <<cur_brew, next_id>>

\* an acquire that creates the brew as BREWING
AcquireBrewAsBrewing ==
    /\ UNCHANGED <<controls, strategy, scale, valve_position, now, strat_vars, lib_vars>>
    /\ IF cur_brew = NoBrew
       THEN LET new_id == next_id + 1 IN
            /\ next_id < MaxBrews
            /\ next_id' = new_id
            /\ cur_brew' = Brew(new_id, "brewing", "default")
            /\ collectors' = [collectors EXCEPT ![new_id] = @ + 1]
            /\ last' = Event("acquire", new_id, 200)
       ELSE /\ last' = Event("acquire", 0, 200)
            /\ UNCHANGED <<cur_brew, next_id, collectors>>

\* POST /api/brew/acquire
AcquireBrew ==
    /\ UNCHANGED <<controls, strategy, scale, valve_position, now, strat_vars, lib_vars>>
    /\ IF cur_brew = NoBrew
       THEN LET new_id == next_id + 1 IN
            /\ next_id < MaxBrews
            /\ next_id' = new_id
            /\ cur_brew' = Brew(new_id, "idle", "default")
            /\ collectors' = [collectors EXCEPT ![new_id] = @ + 1]
            /\ last' = Event("acquire", new_id, 200)
       ELSE /\ last' = Event("acquire", 0, 200)
            /\ UNCHANGED <<cur_brew, next_id, collectors>>

\* a validator that only asks for a brew to be in progress
MatchBrewIdAnyBrew(brew_id) ==
    cur_brew # NoBrew

\* MatchBrewId.brew_id_must_match: the request passes validation
MatchBrewId(brew_id) ==
    cur_brew # NoBrew /\ brew_id = cur_brew.id

\* a request to an endpoint that depends on MatchBrewId (release, stop,
\* valve forward, valve backward) whose id fails the validation: the
\* validator raises 422 before the endpoint's body runs
BrewIdRejected(brew_id) ==
    /\ ~MatchBrewId(brew_id)
    /\ last' = Event("brew_id_must_match", 0, 422)
    /\ UNCHANGED <<cur_brew, next_id, collectors, controls, strategy, scale,
                   valve_position, now, strat_vars, lib_vars>>

\* POST /api/brew/release, and POST /api/brew/stop which delegates to it
ReleaseBrew(op, brew_id) ==
    /\ UNCHANGED <<next_id, collectors, controls, strategy, valve_position,
                   now, strat_vars, lib_vars>>
    /\ MatchBrewId(brew_id)
    /\ IF scale = "None"
       \* valve.release() is done, then scale.disconnect() fails on None
       THEN /\ last' = [Event(op, brew_id, 500) EXCEPT !.valve_calls = <<"release">>]
            /\ UNCHANGED <<cur_brew, scale>>
       ELSE /\ last' = [Event(op, brew_id, 200) EXCEPT !.valve_calls = <<"release">>]
            /\ scale' = "None"
            /\ cur_brew' = NoBrew

\* a kill that releases the valve where it stands
KillBrewNoReturn ==
    /\ UNCHANGED <<next_id, collectors, controls, strategy, now, strat_vars, lib_vars>>
    /\ IF cur_brew # NoBrew
       THEN /\ cur_brew' = NoBrew
            /\ scale' = IF scale = "None" THEN "None" ELSE "disconnected"
            /\ last' = [Event("kill", cur_brew.id,
                              IF scale = "None" THEN 500 ELSE 200)
                        EXCEPT !.valve_calls = <<"release">>]
            /\ UNCHANGED valve_position
       ELSE /\ last' = Event("kill", 0, 404)
            /\ UNCHANGED <<cur_brew, valve_position, scale>>

\* POST /api/brew/kill
KillBrew ==
    /\ UNCHANGED <<next_id, collectors, controls, strategy, now, strat_vars, lib_vars>>
    /\ IF cur_brew # NoBrew
       THEN /\ cur_brew' = NoBrew
            /\ valve_position' = 0
            /\ scale' = IF scale = "None" THEN "None" ELSE "disconnected"
            /\ last' = [Event("kill", cur_brew.id,
                              IF scale = "None" THEN 500 ELSE 200)
                        EXCEPT !.valve_calls = <<"return_to_start", "release">>]
       ELSE /\ last' = Event("kill", 0, 404)
            /\ UNCHANGED <<cur_brew, valve_position, scale>>

\* a pause that refuses a brew that is already paused
PauseBrewOnce ==
    /\ UNCHANGED <<next_id, collectors, controls, strategy, scale,
                   valve_position, now, strat_vars, lib_vars>>
    /\ IF cur_brew # NoBrew /\ cur_brew.status = "brewing"
       THEN /\ cur_brew' = [cur_brew EXCEPT !.status = "paused"]
            /\ last' = [Event("pause", cur_brew.id, 200) EXCEPT !.status = "paused"]
       ELSE /\ last' = Event("pause", 0, 400)
            /\ UNCHANGED cur_brew

\* POST /api/brew/pause
PauseBrew ==
    /\ UNCHANGED <<next_id, collectors, controls, strategy, scale,
                   valve_position, now, strat_vars, lib_vars>>
    /\ IF cur_brew # NoBrew /\ cur_brew.status = "brewing"
       THEN /\ cur_brew' = [cur_brew EXCEPT !.status = "paused"]
            /\ last' = [Event("pause", cur_brew.id, 200) EXCEPT !.status = "paused"]
       ELSE IF cur_brew # NoBrew /\ cur_brew.status = "paused"
       THEN /\ last' = [Event("pause", cur_brew.id, 200) EXCEPT !.status = "already paused"]
            /\ UNCHANGED cur_brew
       ELSE /\ last' = Event("pause", 0, 400)
            /\ UNCHANGED cur_brew

\* a resume that restarts the controller of the brew
ResumeBrewResetsStrategy ==
    /\ UNCHANGED <<next_id, collectors, controls, scale,
                   valve_position, now, strat_vars, lib_vars>>
    /\ IF cur_brew # NoBrew /\ cur_brew.status = "paused"
       THEN /\ cur_brew' = [cur_brew EXCEPT !.status = "brewing"]
            /\ strategy' = NewStrategy(strategy.type)
            /\ last' = [Event("resume", cur_brew.id, 200) EXCEPT !.status = "resumed"]
       ELSE IF cur_brew # NoBrew /\ cur_brew.status = "brewing"
       THEN /\ last' = [Event("resume", cur_brew.id, 200) EXCEPT !.status = "already brewing"]
            /\ UNCHANGED <<cur_brew, strategy>>
       ELSE /\ last' = Event("resume", 0, 400)
            /\ UNCHANGED <<cur_brew, strategy>>

\* POST /api/brew/resume
ResumeBrew ==
    /\ UNCHANGED <<next_id, collectors, controls, strategy, scale,
                   valve_position, now, strat_vars, lib_vars>>
    /\ IF cur_brew # NoBrew /\ cur_brew.status = "paused"
       THEN /\ cur_brew' = [cur_brew EXCEPT !.status = "brewing"]
            /\ last' = [Event("resume", cur_brew.id, 200) EXCEPT !.status = "resumed"]
       ELSE IF cur_brew # NoBrew /\ cur_brew.status = "brewing"
       THEN /\ last' = [Event("resume", cur_brew.id, 200) EXCEPT !.status = "already brewing"]
            /\ UNCHANGED cur_brew
       ELSE /\ last' = Event("resume", 0, 400)
            /\ UNCHANGED cur_brew

\* POST /api/brew/valve/forward and /backward (delta is +1 or -1)
ValveStep(op, brew_id, delta) ==
    /\ UNCHANGED <<cur_brew, next_id, collectors, controls, strategy, scale,
                   now, strat_vars, lib_vars>>
    /\ MatchBrewId(brew_id)
    /\ Abs(valve_position + delta) <= MaxPos
    /\ valve_position' = valve_position + delta
    /\ last' = [Event(op, brew_id, 200) EXCEPT !.valve_calls =
                  <<IF delta > 0 THEN "step_forward" ELSE "step_backward">>]

\* GET /api/scale: get_scale_status reconnects a disconnected scale
ReadScale(connect_ok) ==
    /\ scale' = Reconnect(scale, connect_ok)
    /\ last' = Event("read_scale", 0, 200)
    /\ UNCHANGED <<cur_brew, next_id, collectors, controls, strategy,
                   valve_position, now, strat_vars, lib_vars>>

\* the scale loses its connection (AbstractScale.connected turns false)
ScaleDrop ==
    /\ scale = "connected"
    /\ scale' = "disconnected"
    /\ last' = Event("scale_drop", 0, 0)
    /\ UNCHANGED <<cur_brew, next_id, collectors, controls, strategy,
                   valve_position, now, strat_vars, lib_vars>>

\* ---------------------------------------------------------------------
\* server.py: the two tasks of a brew.  A tick is one loop iteration: the
\* loop condition, the body up to the sleep, and the except clause if the
\* body raised.  Nothing is awaited between the loop condition and the
\* sleep, so a tick is atomic.
\* ---------------------------------------------------------------------
\* a loop that runs for as long as it has an id
LoopConditionBoundOnly(brew_id) ==
    brew_id # 0

\* a loop that runs for as long as there is a brew, whichever
LoopConditionAnyBrew(brew_id) ==
    brew_id # 0 /\ cur_brew # NoBrew

\* while brew_id is not None and cur_brew is not None and brew_id == cur_brew.id
LoopCondition(brew_id) ==
    brew_id # 0 /\ cur_brew # NoBrew /\ brew_id = cur_brew.id

\* tasks that work on a BREWING brew only and sit out an ERROR
OperationalBrewingOnly(brew) == brew.status = "brewing"

\* tasks that work on a brew whatever its status
OperationalAlways(brew) == brew.status \in BrewState

\* tasks that also work on a paused brew
OperationalWhilePaused(brew) == brew.status \in {"brewing", "error", "paused"}

\* tasks that work on every brew that is not paused
OperationalUnlessPaused(brew) == brew.status # "paused"

\* if cur_brew.status in (BrewState.BREWING, BrewState.ERROR)
Operational(brew) == brew.status \in {"brewing", "error"}

\* how the collaborators answer one sampling attempt
\*   connect_raise: scale.connect() raises
\*   connect_fail:  scale.connect() returns with the scale still disconnected
\*   read_raise:    get_weight / get_battery_percentage raises
\*   weight_none:   the scale has no weight or battery value yet
\*   write_raise:   time_series.write_scale_data raises
\*   ok:            the sample is read and written
CollectorOutcomes ==
    {"connect_raise", "connect_fail", "read_raise", "weight_none",
     "write_raise", "ok"}

\* an except clause that logs the message and leaves the status
ExceptClauseKeepsStatus(brew) ==
    IF brew # NoBrew
    THEN [brew EXCEPT !.error_message = TRUE]
    ELSE brew

\* the except clause of both tasks
\*   if cur_brew is not None: cur_brew.status = ERROR; cur_brew.error_message = ...
ExceptClause(brew) ==
    IF brew # NoBrew
    THEN [brew EXCEPT !.status = "error", !.error_message = TRUE]
    ELSE brew

\* one iteration of collect_scale_data_task(brew_id, s)
CollectorTick(brew_id, outcome) ==
    /\ collectors[brew_id] > 0
    \* how the collaborators answer makes a difference only in an
    \* iteration that gets as far as get_scale_status()
    /\ outcome # "ok" => (LoopCondition(brew_id) /\ Operational(cur_brew))
    /\ UNCHANGED <<next_id, controls, strategy, valve_position, now, strat_vars, lib_vars>>
    /\ IF ~LoopCondition(brew_id)
       THEN /\ collectors' = [collectors EXCEPT ![brew_id] = @ - 1]
            /\ last' = [Event("collector_tick", brew_id, 0) EXCEPT !.stale = TRUE]
            /\ UNCHANGED <<cur_brew, scale>>
       ELSE /\ UNCHANGED collectors
            /\ IF ~Operational(cur_brew)
               THEN /\ last' = Event("collector_tick", brew_id, 0)
                    /\ UNCHANGED <<cur_brew, scale>>
               ELSE \* get_scale_status()
                    /\ outcome \in {"connect_raise", "connect_fail"} => scale # "connected"
                    /\ scale' = IF outcome \in {"connect_raise", "connect_fail"}
                                THEN "disconnected" ELSE "connected"
                    /\ cur_brew' =
                         CASE outcome \in {"connect_raise", "read_raise", "write_raise"}
                                -> ExceptClause(cur_brew)
                           [] outcome = "ok" -> [cur_brew EXCEPT !.status = "brewing"]
                           [] OTHER -> cur_brew
                    /\ last' = [Event("collector_tick", brew_id, 0) EXCEPT
                                  !.sampled = outcome \in {"read_raise", "weight_none",
                                                           "write_raise", "ok"},
                                  !.wrote = outcome = "ok",
                                  !.raised = outcome \in {"connect_raise", "read_raise",
                                                          "write_raise"}]

\* what time_series.get_recent_weight_readings and
\* calculate_flow_rate_from_derivatives give the control loop
FlowInputs == {None, Some(41), Some(59)}
\* what time_series.get_current_weight gives the control loop
WeightInputs == {None, Some(1200), Some(1337)}

\* how the time series answers the two reads of a control tick: both
\* return (ok), or one of them raises
TimeSeriesReads ==
    {[ok |-> FALSE, flow |-> None, weight |-> None]} \cup
    {[ok |-> TRUE, flow |-> f, weight |-> w] : f \in FlowInputs, w \in WeightInputs}

\* the valve position after the command of a control tick
ApplyCommand(position, cmd) ==
    CASE cmd = "STOP" -> 0
      [] cmd = "FORWARD" -> position + 1
      [] cmd = "BACKWARD" -> position - 1
      [] OTHER -> position

\* a dispatch that has the two step directions the wrong way round
CommandCallsSwapped(cmd) ==
    CASE cmd = "STOP" -> <<"return_to_start", "release">>
      [] cmd = "FORWARD" -> <<"step_backward">>
      [] cmd = "BACKWARD" -> <<"step_forward">>
      [] OTHER -> <<>>

\* the valve methods a control tick calls for a command
CommandCalls(cmd) ==
    CASE cmd = "STOP" -> <<"return_to_start", "release">>
      [] cmd = "FORWARD" -> <<"step_forward">>
      [] cmd = "BACKWARD" -> <<"step_backward">>
      [] OTHER -> <<>>

\* one iteration of brew_step_task(brew_id, strategy); read is how the
\* time series answers, valve_ok whether the valve method that the command
\* calls first returns (TRUE) or raises (FALSE)
ControlTick(brew_id, read, valve_ok) ==
    /\ controls[brew_id] > 0
    \* what the time series answers makes a difference only in an
    \* iteration that reads it, and a valve that raises only in one that
    \* gets as far as a valve call
    /\ read.ok => (LoopCondition(brew_id) /\ Operational(cur_brew))
    /\ ~valve_ok => read.ok
    /\ UNCHANGED <<next_id, collectors, strat_vars, lib_vars>>
    /\ IF ~LoopCondition(brew_id)
       THEN /\ controls' = [controls EXCEPT ![brew_id] = @ - 1]
            /\ last' = [Event("control_tick", brew_id, 0) EXCEPT !.stale = TRUE]
            /\ UNCHANGED <<cur_brew, strategy, scale, valve_position, now>>
       ELSE IF ~Operational(cur_brew)
       THEN \* when paused, just sleep and check again
            /\ last' = Event("control_tick", brew_id, 0)
            /\ UNCHANGED <<cur_brew, controls, strategy, scale, valve_position, now>>
       ELSE IF ~read.ok
       THEN /\ cur_brew' = ExceptClause(cur_brew)
            /\ last' = [Event("control_tick", brew_id, 0) EXCEPT !.raised = TRUE]
            /\ UNCHANGED <<controls, strategy, scale, valve_position, now>>
       ELSE LET r == StrategyStep(strategy, read.flow, read.weight, now)
                ev == [Event("control_tick", brew_id, 0) EXCEPT
                         !.stepped = TRUE, !.cmd = r.cmd]
            IN
            \* the iteration ends in asyncio.sleep; the clock moves on by
            \* the valve interval before the next step
            /\ now < MaxTicks * COLDBREW_VALVE_INTERVAL_SECONDS
            /\ now' = now + COLDBREW_VALVE_INTERVAL_SECONDS
            /\ Abs(ApplyCommand(valve_position, r.cmd)) <= MaxPos
            /\ ~valve_ok => r.cmd # "NOOP"
            /\ IF r.cmd = "STOP" /\ scale = "None"
               \* status and time_completed are set, then scale.disconnect()
               \* fails on None and the except clause runs
               THEN /\ cur_brew' = [ExceptClause(cur_brew) EXCEPT !.time_completed = TRUE]
                    /\ strategy' = r.s
                    /\ last' = [ev EXCEPT !.raised = TRUE]
                    /\ UNCHANGED <<controls, scale, valve_position>>
               ELSE IF r.cmd # "NOOP" /\ ~valve_ok
               \* step_forward, step_backward or return_to_start raises (for
               \* STOP after status, time_completed and scale.disconnect())
               \* and the except clause runs
               THEN /\ cur_brew' = IF r.cmd = "STOP"
                                   THEN [ExceptClause(cur_brew) EXCEPT !.time_completed = TRUE]
                                   ELSE ExceptClause(cur_brew)
                    /\ scale' = IF r.cmd = "STOP" THEN "disconnected" ELSE scale
                    /\ strategy' = r.s
                    /\ last' = [ev EXCEPT !.raised = TRUE,
                                          !.valve_calls = <<CommandCalls(r.cmd)[1]>>]
                    /\ UNCHANGED <<controls, valve_position>>
               ELSE IF r.cmd = "STOP"
               THEN /\ cur_brew' = [cur_brew EXCEPT !.status = "completed",
                                                    !.time_completed = TRUE]
                    /\ scale' = "disconnected"
                    /\ valve_position' = ApplyCommand(valve_position, r.cmd)
                    /\ controls' = [controls EXCEPT ![brew_id] = @ - 1]
                    /\ strategy' = r.s
                    /\ last' = [ev EXCEPT !.valve_calls = CommandCalls(r.cmd)]
               ELSE /\ cur_brew' = [cur_brew EXCEPT !.status = "brewing"]
                    /\ valve_position' = ApplyCommand(valve_position, r.cmd)
                    /\ strategy' = r.s
                    /\ last' = [ev EXCEPT !.valve_calls = CommandCalls(r.cmd)]
                    /\ UNCHANGED <<controls, scale>>

\* ---------------------------------------------------------------------
\* The orchestrator: any interleaving of requests, task ticks, scale
\* connection loss and the passing of time
\* ---------------------------------------------------------------------
Next ==
    \/ \E t \in StartTypes, ok \in BOOLEAN : StartBrew(t, ok)
    \/ AcquireBrew
    \/ \E b \in 0..MaxBrews : BrewIdRejected(b)
    \/ \E b \in BrewIds : ReleaseBrew("release", b)
    \/ \E b \in BrewIds : ReleaseBrew("stop", b)
    \/ KillBrew
    \/ PauseBrew
    \/ ResumeBrew
    \/ \E b \in BrewIds : ValveStep("valve_forward", b, 1)
    \/ \E b \in BrewIds : ValveStep("valve_backward", b, -1)
    \/ \E ok \in BOOLEAN : ReadScale(ok)
    \/ ScaleDrop
    \/ \E b \in BrewIds, o \in CollectorOutcomes : CollectorTick(b, o)
    \/ \E b \in BrewIds, r \in TimeSeriesReads, v \in BOOLEAN : ControlTick(b, r, v)

Spec == Init /\ [][Next]_vars

\* asyncio runs every task that is ready: a task that is sleeping wakes up
\* and runs its next iteration
TaskFairness ==
    \A b \in BrewIds :
        /\ WF_vars(\E o \in CollectorOutcomes : CollectorTick(b, o))
        /\ WF_vars(\E r \in TimeSeriesReads, v \in BOOLEAN : ControlTick(b, r, v))

FairSpec == Spec /\ TaskFairness

\* ---------------------------------------------------------------------
\* A strategy object on its own: any of the six strategies is constructed
\* and step is called with any flow rate and weight, any time apart
\* ---------------------------------------------------------------------
\* the flow rates a step is called with
StrategyFlows == {None, Some(41), Some(50), Some(58), Some(59)}

\* gains a start request gives in its strategy_params instead of the
\* defaults: kp = 12.5, ki = 0
GainParams == [kp |-> 12500, ki |-> 0]

\* from_params of the PID, Kalman-PID and Smith predictor classes with kp
\* and ki taken from strategy_params
NewStrategyWith(type, params) ==
    [NewStrategy(type) EXCEPT !.kp = params.kp, !.ki = params.ki]

\* the strategy classes whose from_params reads kp and ki
GainTypes == {"pid", "kalman_pid", "smith_predictor_advanced"}

\* horizon, cost weights and plant time constant a start request gives
\* in its strategy_params instead of the defaults, with a horizon of 3
\* steps: all three weights 0 (every candidate costs 0.0); the tracking
\* error alone; the tracking error alone with a plant that takes 1500 s
\* to settle
MpcParams ==
    {[horizon |-> 3, q_error |-> 0, q_control |-> 0, q_delta |-> 0,
      plant_time_constant |-> 10],
     [horizon |-> 3, q_error |-> 1000, q_control |-> 0, q_delta |-> 0,
      plant_time_constant |-> 10],
     [horizon |-> 3, q_error |-> 1000, q_control |-> 0, q_delta |-> 0,
      plant_time_constant |-> 1500]}

\* MPCBrewStrategy.from_params with horizon, q_error, q_control, q_delta
\* and plant_time_constant taken from strategy_params
NewMpcWith(params) ==
    [NewStrategy("mpc") EXCEPT !.horizon = params.horizon,
                               !.q_error = params.q_error,
                               !.q_control = params.q_control,
                               !.q_delta = params.q_delta,
                               !.plant_time_constant = params.plant_time_constant]

\* seconds between two step calls
StepGaps == {60, 120}

StratInit ==
    /\ OrchInit
    /\ strat \in {NewStrategy(t) : t \in BrewStrategyType}
                 \cup {NewStrategyWith(t, GainParams) : t \in GainTypes}
                 \cup {NewMpcWith(q) : q \in MpcParams}
    /\ out = NoCall
    /\ nsteps = 0
    /\ LibInit

\* strategy.step(current_flow_rate, current_weight) at time.time() = now
StratStep(current_flow_rate, current_weight, gap) ==
    /\ nsteps < MaxSteps
    /\ LET r == StrategyStep(strat, current_flow_rate, current_weight, now) IN
       /\ strat' = r.s
       /\ out' = CallRecord(out, strat, r, current_flow_rate, current_weight)
    /\ nsteps' = nsteps + 1
    /\ now' = now + gap
    /\ UNCHANGED <<cur_brew, next_id, collectors, controls, strategy, scale,
                   valve_position, last, lib_vars>>

StratNext ==
    \E f \in StrategyFlows, w \in WeightInputs, g \in StepGaps : StratStep(f, w, g)

StratSpec == StratInit /\ [][StratNext]_vars

\* ---------------------------------------------------------------------
\* An adaptive gain scheduling strategy on its own, stepped once per valve
\* interval for long enough to adapt
\* ---------------------------------------------------------------------
\* the flow rates a step is called with: 0.020 (low region, error 0.030),
\* 0.035 (medium region, error 0.015), 0.050 (medium region, no error)
AdaptFlows == {None, Some(20), Some(35), Some(50)}

\* adaptation_rate of strategy_params: 0, the default 0.01, 0.3 and 0.6
AdaptationRates == {0, AdaptationRate, 300, 600}

\* AdaptiveGainSchedulingBrewStrategy.from_params with adaptation_rate
\* taken from strategy_params
NewAdaptiveWith(adaptation_rate) ==
    [NewStrategy("adaptive_gain_scheduling") EXCEPT !.adaptation_rate = adaptation_rate]

AdaptInit ==
    /\ OrchInit
    /\ strat \in {NewAdaptiveWith(r) : r \in AdaptationRates}
    /\ out = NoCall
    /\ nsteps = 0
    /\ LibInit

\* strategy.step(current_flow_rate, None) at time.time() = now, the next
\* call one valve interval later
AdaptStep(current_flow_rate) ==
    /\ nsteps < MaxAdaptSteps
    /\ LET r == StrategyStep(strat, current_flow_rate, None, now) IN
       /\ strat' = r.s
       /\ out' = CallRecord(out, strat, r, current_flow_rate, None)
    /\ nsteps' = nsteps + 1
    /\ now' = now + COLDBREW_VALVE_INTERVAL_SECONDS
    /\ UNCHANGED <<cur_brew, next_id, collectors, controls, strategy, scale,
                   valve_position, last, lib_vars>>

AdaptNext ==
    \E f \in AdaptFlows : AdaptStep(f)

AdaptSpec == AdaptInit /\ [][AdaptNext]_vars

\* ---------------------------------------------------------------------
\* A Smith predictor strategy on its own, with the dead times and gains a
\* start request can give it
\* ---------------------------------------------------------------------
\* the flow rates a step is called with
SmithFlows == {None, Some(41), Some(59)}

\* dead_time of strategy_params: the default 30 s, 100 s and 120 s
DeadTimes == {DeadTime, 100, 120}

\* kp and ki of strategy_params: the defaults, and kp = 12.5 with ki = 0
SmithGains == {[kp |-> KpDefault, ki |-> KiDefault], GainParams}

\* SmithPredictorAdvancedBrewStrategy.from_params with kp, ki and
\* dead_time taken from strategy_params
NewSmithWith(params, dead_time) ==
    [NewStrategyWith("smith_predictor_advanced", params)
        EXCEPT !.dead_time = dead_time,
               !.delay_samples = DelaySamplesFor(dead_time)]

SmithInit ==
    /\ OrchInit
    /\ strat \in {NewSmithWith(g, d) : g \in SmithGains, d \in DeadTimes}
    /\ out = NoCall
    /\ nsteps = 0
    /\ LibInit

\* strategy.step(current_flow_rate, None) at time.time() = now
SmithTick(current_flow_rate, gap) ==
    /\ nsteps < MaxSmithSteps
    /\ LET r == StrategyStep(strat, current_flow_rate, None, now)
           call == CallRecord(out, strat, r, current_flow_rate, None)
       IN  /\ strat' = r.s
           /\ out' = IF PlantModelUpdated(strat, current_flow_rate, None)
                     THEN [call EXCEPT
                              !.pushed = Append(@, r.s.delay_buffer[Len(r.s.delay_buffer)]),
                              !.applied = Append(@, DelayedControl(strat))]
                     ELSE call
    /\ nsteps' = nsteps + 1
    /\ now' = now + gap
    /\ UNCHANGED <<cur_brew, next_id, collectors, controls, strategy, scale,
                   valve_position, last, lib_vars>>

SmithNext ==
    \E f \in SmithFlows, g \in StepGaps : SmithTick(f, g)

SmithSpec == SmithInit /\ [][SmithNext]_vars

\* ---------------------------------------------------------------------
\* The flow rate computation on its own: any weight points in the query
\* window, in any order
\* ---------------------------------------------------------------------
\* the points a query finds: (seconds, grams)
SampleTimes == {0, 20, 60}
SampleWeights == {230, 231, 233}
Samples == SampleTimes \X SampleWeights

PointLists == UNION {[1..n -> Samples] : n \in 0..MaxReadings}

IdleStrategy ==
    /\ strat = NoStrategy
    /\ out = NoCall
    /\ nsteps = 0

FlowInit ==
    /\ OrchInit
    /\ IdleStrategy
    /\ estimator \in {NewEstimator(p) : p \in PointLists}
    /\ retry = error_recovery
    /\ motor = NewMotorKitValve

\* time_series.get_current_flow_rate()
FlowRead ==
    /\ ~estimator.called
    /\ estimator' = [estimator EXCEPT
                        !.readings = GetRecentWeightReadings(estimator.points),
                        !.rate = GetCurrentFlowRate(estimator.points),
                        !.called = TRUE]
    /\ UNCHANGED <<cur_brew, next_id, collectors, controls, strategy, scale,
                   valve_position, now, last, strat_vars, retry, motor>>

FlowNext == FlowRead

FlowSpec == FlowInit /\ [][FlowNext]_vars

\* ---------------------------------------------------------------------
\* A call of the retry helper on its own: any ErrorRecovery object, the
\* operation returning or raising anything at each invocation
\* ---------------------------------------------------------------------
\* base_delay of the ErrorRecovery object, in seconds
BaseDelays == {1, 2}

RetryInit ==
    /\ OrchInit
    /\ IdleStrategy
    /\ estimator = NewEstimator(<<>>)
    /\ retry \in {NewRetry(n, b) : n \in 0..MaxRetries, b \in BaseDelays}
    /\ motor = NewMotorKitValve

\* retry_sync(func) / retry_async(func) is called: up to the first
\* invocation of func
RetryCall ==
    /\ retry.pc = "call"
    /\ retry' = RetryLoop(retry, 0)
    /\ UNCHANGED <<cur_brew, next_id, collectors, controls, strategy, scale,
                   valve_position, now, last, strat_vars, estimator, motor>>

\* func(*args, **kwargs) returns or raises
RetryInvoke(outcome) ==
    /\ retry.pc = "invoke"
    /\ retry' = RetryTry(retry, outcome)
    /\ UNCHANGED <<cur_brew, next_id, collectors, controls, strategy, scale,
                   valve_position, now, last, strat_vars, estimator, motor>>

\* the sleep of the except clause is over
RetrySleep ==
    /\ retry.pc = "sleep"
    /\ retry' = RetrySlept(retry)
    /\ UNCHANGED <<cur_brew, next_id, collectors, controls, strategy, scale,
                   valve_position, now, last, strat_vars, estimator, motor>>

RetryNext ==
    \/ RetryCall
    \/ \E o \in Outcomes : RetryInvoke(o)
    \/ RetrySleep

RetrySpec == RetryInit /\ [][RetryNext]_vars

\* the operation and the sleep come back, and the caller goes on
RetryFairness ==
    /\ WF_vars(RetryCall)
    /\ WF_vars(\E o \in Outcomes : RetryInvoke(o))
    /\ WF_vars(RetrySleep)

RetryFairSpec == RetrySpec /\ RetryFairness

\* ---------------------------------------------------------------------
\* A MotorKitValve on its own: any sequence of step_forward,
\* step_backward and return_to_start calls
\* ---------------------------------------------------------------------
MotorInit ==
    /\ OrchInit
    /\ IdleStrategy
    /\ estimator = NewEstimator(<<>>)
    /\ retry = error_recovery
    /\ motor = NewMotorKitValve

\* the call of method op that takes the valve from motor to m1
MotorCall(op, m1) ==
    /\ motor.calls < MaxValveCalls
    /\ motor' = [m1 EXCEPT !.op = op, !.calls = motor.calls + 1]
    /\ UNCHANGED <<cur_brew, next_id, collectors, controls, strategy, scale,
                   valve_position, now, last, strat_vars, estimator, retry>>

\* valve.step_forward()
MotorStepForward ==
    MotorCall("step_forward", [MotorStep(motor, "FORWARD") EXCEPT !.raised = ""])

\* valve.step_backward()
MotorStepBackward ==
    MotorCall("step_backward", [MotorStep(motor, "BACKWARD") EXCEPT !.raised = ""])

\* valve.return_to_start()
MotorReturnToStart ==
    MotorCall("return_to_start", ReturnToStart(motor))

MotorNext ==
    \/ MotorStepForward
    \/ MotorStepBackward
    \/ MotorReturnToStart

MotorSpec == MotorInit /\ [][MotorNext]_vars

\* ---------------------------------------------------------------------
\* Properties of the strategies (StratSpec)
\* ---------------------------------------------------------------------
\* the weight of the last step call is present and has reached the target:
\* weight - vessel_weight >= coffee_target
TargetReached(weight) ==
    /\ weight # None
    /\ weight[1] - COLDBREW_VESSEL_WEIGHT_GRAMS >=
         COLDBREW_TARGET_WEIGHT_GRAMS - COLDBREW_VESSEL_WEIGHT_GRAMS

\* C1: in every strategy and every controller state, a step call whose
\* weight is present and has reached the target returns (STOP, 0) whatever
\* the flow rate is, and changes nothing of the controller state.
C1_WeightPrecedence ==
    [][(nsteps' = nsteps + 1 /\ TargetReached(out'.weight))
         => (out'.cmd = "STOP" /\ out'.interval = 0 /\ strat' = strat)]_vars

\* a Smith predictor that has stepped on flow before (its delay buffer is
\* filled) is called with the target weight and no flow rate, and stops
C1_Witness ==
    /\ strat.type = "smith_predictor_advanced"
    /\ strat.delay_buffer # <<>>
    /\ out.flow = None
    /\ TargetReached(out.weight)
    /\ out.cmd = "STOP"

\* C2: STOP is returned only by a call whose weight is present and at or
\* above the target; a call with no weight, or a weight below the target,
\* never returns STOP.
C2_NoEarlyStop ==
    out.cmd = "STOP" => TargetReached(out.weight)

\* the first STOP of a controller that has stepped on flow before, at the
\* sample that reaches 1337 g
C2_Witness ==
    /\ nsteps = MaxSteps
    /\ strat.prev_timestamp # None
    /\ out.cmd = "STOP"
    /\ out.weight = Some(COLDBREW_TARGET_WEIGHT_GRAMS)
    /\ out.flow # None

\* ---------------------------------------------------------------------
\* Properties of the orchestrator (Spec, and FairSpec for what has to
\* happen eventually)
\* ---------------------------------------------------------------------
\* the brew a task was started for has been killed, released or replaced
BoundIdStale(brew_id) ==
    cur_brew = NoBrew \/ cur_brew.id # brew_id

TaskOps == {"collector_tick", "control_tick"}

\* C3: once the brew of a task is gone (killed, released, stopped or
\* replaced), the next iteration of the task is its last: the iteration
\* ends the task, and every such task that is scheduled does end.
C3_StaleTasksTerminate ==
    /\ [][\A b \in BrewIds :
            /\ (last'.op = "collector_tick" /\ last'.id = b /\ BoundIdStale(b))
                 => collectors'[b] = collectors[b] - 1
            /\ (last'.op = "control_tick" /\ last'.id = b /\ BoundIdStale(b))
                 => controls'[b] = controls[b] - 1]_vars
    /\ \A b \in BrewIds : (BoundIdStale(b) /\ collectors[b] > 0) ~> (collectors[b] = 0)
    /\ \A b \in BrewIds : (BoundIdStale(b) /\ controls[b] > 0) ~> (controls[b] = 0)

\* after a kill, the collector of the killed brew has run once more and
\* ended, and so has its control loop
C3_Witness ==
    /\ last.stale
    /\ last.op = "collector_tick"
    /\ cur_brew = NoBrew
    /\ collectors[last.id] = 0
    /\ controls[last.id] = 0
    /\ scale = "disconnected"

\* C4: an iteration of a task whose brew is gone reads no scale, writes no
\* time series, steps no strategy, moves no valve and writes nothing to the
\* brew that is current, also when that is a new brew.
C4_StaleTaskIsInert ==
    [][(last'.op \in TaskOps /\ BoundIdStale(last'.id))
         => /\ UNCHANGED <<cur_brew, strategy, scale, valve_position, now>>
            /\ ~last'.sampled /\ ~last'.wrote /\ ~last'.stepped
            /\ ~last'.raised
            /\ last'.valve_calls = <<>>]_vars

\* the control loop of a replaced brew wakes up while the new brew is brewing
C4_Witness ==
    /\ last.stale
    /\ last.op = "control_tick"
    /\ cur_brew # NoBrew
    /\ cur_brew.id # last.id
    /\ cur_brew.status = "brewing"

\* C5: there is one current brew at most, and of the tasks bound to its id
\* at most one collector and at most one control loop are alive.
C5_OneTaskPairPerBrew ==
    cur_brew # NoBrew =>
        /\ cur_brew.id \in BrewIds
        /\ cur_brew.id = next_id
        /\ collectors[cur_brew.id] <= 1
        /\ controls[cur_brew.id] <= 1

\* a second brew with its two tasks, while both tasks of the first brew
\* have not yet run again
C5_Witness ==
    /\ cur_brew # NoBrew
    /\ cur_brew.id = 2
    /\ collectors[2] = 1 /\ controls[2] = 1
    /\ collectors[1] = 1 /\ controls[1] = 1

\* the brew stays the same brew and its status changes
StatusChange ==
    /\ cur_brew # NoBrew /\ cur_brew' # NoBrew
    /\ cur_brew'.id = cur_brew.id
    /\ cur_brew'.status # cur_brew.status

ListedEdges ==
    {<<"brewing", "paused">>, <<"paused", "brewing">>, <<"brewing", "error">>,
     <<"error", "brewing">>, <<"brewing", "completed">>}

\* C6 as stated: a status changes along a listed edge only, and a brew is
\* cleared by kill only.
C6_ListedEdgesOnly ==
    [][/\ StatusChange => <<cur_brew.status, cur_brew'.status>> \in ListedEdges
       /\ (cur_brew # NoBrew /\ cur_brew' = NoBrew) => last'.op = "kill"]_vars

\* C6: a status changes along one of BREWING -> PAUSED, PAUSED -> BREWING,
\* BREWING -> ERROR, ERROR -> BREWING, BREWING -> COMPLETED and
\* ERROR -> COMPLETED; a brew is cleared by kill, or by release or stop
\* with its id; a brew is replaced only by a start that finds it COMPLETED
\* or ERROR.
C6_StatusEdges ==
    [][/\ StatusChange => <<cur_brew.status, cur_brew'.status>>
                              \in ListedEdges \cup {<<"error", "completed">>}
       /\ (cur_brew # NoBrew /\ cur_brew' = NoBrew)
            => last'.op \in {"kill", "release", "stop"}
       /\ (cur_brew # NoBrew /\ cur_brew' # NoBrew /\ cur_brew'.id # cur_brew.id)
            => /\ last'.op = "start"
               /\ cur_brew.status \in {"completed", "error"}
               /\ cur_brew'.status = "brewing"]_vars

\* a control tick finds the brew in ERROR, its step returns STOP, and the
\* brew is COMPLETED
C6_Witness ==
    /\ last.op = "control_tick"
    /\ last.from = "error"
    /\ last.cmd = "STOP"
    /\ cur_brew # NoBrew
    /\ cur_brew.status = "completed"

\* C7: a brew becomes COMPLETED only in a control tick whose step returned
\* STOP, and no task tick, pause or resume changes a COMPLETED brew.
C7_CompletedByStopAndTerminal ==
    [][/\ (cur_brew'.status = "completed" /\ cur_brew' # cur_brew)
            => /\ last'.op = "control_tick"
               /\ last'.stepped
               /\ last'.cmd = "STOP"
               /\ last'.id = cur_brew'.id
       /\ (cur_brew.status = "completed"
             /\ last'.op \in TaskOps \cup {"pause", "resume"})
            => cur_brew' = cur_brew]_vars

\* the collector of a completed brew runs an iteration and the brew is
\* still COMPLETED
C7_Witness ==
    /\ last.op = "collector_tick"
    /\ ~last.stale
    /\ last.from = "completed"
    /\ cur_brew # NoBrew
    /\ cur_brew.id = last.id
    /\ cur_brew.status = "completed"

C9_StartConflict ==
    [][(last'.op = "start" /\ cur_brew.status \in {"brewing", "paused"})
         => /\ last'.code = 409
            /\ UNCHANGED <<cur_brew, next_id, strategy, collectors, controls>>]_vars

\* a start is refused while a brew whose strategy has stepped is paused
C9_Witness ==
    /\ last.op = "start"
    /\ last.code = 409
    /\ last.from = "paused"
    /\ strategy.prev_timestamp # None
    /\ cur_brew.status = "paused"

\* a start or an acquire that found no brew has made a new brew
CreatedFromIdle(op) ==
    /\ last'.op = op
    /\ cur_brew = NoBrew

\* C10 as stated: from no brew, start and acquire both create a BREWING
\* brew with a collector and a control loop.
C10_BothCreateBrewing ==
    [][(CreatedFromIdle("start") \/ CreatedFromIdle("acquire"))
         => /\ cur_brew' # NoBrew
            /\ cur_brew'.status = "brewing"
            /\ collectors'[cur_brew'.id] = 1
            /\ controls'[cur_brew'.id] = 1]_vars

\* C10: from no brew, a start whose scale connects creates a BREWING brew
\* with a collector and a control loop, and a start whose scale does not
\* connect answers 503 and creates nothing; an acquire creates an IDLE brew
\* with a collector and no control loop.
C10_StartAndAcquire ==
    [][/\ CreatedFromIdle("start") =>
            \/ /\ last'.code = 200
               /\ scale' = "connected"
               /\ cur_brew' # NoBrew
               /\ cur_brew'.id = next_id'
               /\ next_id' = next_id + 1
               /\ cur_brew'.status = "brewing"
               /\ collectors'[cur_brew'.id] = 1
               /\ controls'[cur_brew'.id] = 1
            \/ /\ last'.code = 503
               /\ scale' # "connected"
               /\ UNCHANGED <<cur_brew, next_id, collectors, controls>>
       /\ CreatedFromIdle("acquire") =>
            /\ cur_brew' # NoBrew
            /\ cur_brew'.id = next_id'
            /\ next_id' = next_id + 1
            /\ cur_brew'.status = "idle"
            /\ collectors'[cur_brew'.id] = 1
            /\ controls'[cur_brew'.id] = 0
            /\ UNCHANGED <<controls, strategy>>]_vars

\* an acquire has made an IDLE brew with a collector only
C10_Witness ==
    /\ last.op = "acquire"
    /\ last.from = "none"
    /\ cur_brew # NoBrew
    /\ cur_brew.status = "idle"
    /\ collectors[cur_brew.id] = 1
    /\ controls[cur_brew.id] = 0

\* C11: an iteration of either task whose body raises finds the brew
\* BREWING or ERROR and leaves it ERROR with error_message set; the task
\* is not ended by the exception, and the brew is still one the task works
\* on at its next iteration.
C11_ExceptionSetsError ==
    [][(last'.op \in TaskOps /\ last'.raised)
         => /\ cur_brew.status \in {"brewing", "error"}
            /\ cur_brew' # NoBrew
            /\ cur_brew'.id = cur_brew.id
            /\ cur_brew'.id = last'.id
            /\ cur_brew'.status = "error"
            /\ cur_brew'.error_message
            /\ collectors' = collectors
            /\ controls' = controls
            /\ collectors[last'.id] = 1
            /\ last'.op = "control_tick" => controls[last'.id] = 1]_vars

\* the control loop finds the brew in ERROR, steps its strategy, and the
\* valve raises: the brew is in ERROR and the control loop is alive
C11_Witness ==
    /\ last.op = "control_tick"
    /\ last.raised
    /\ last.stepped
    /\ last.cmd = "FORWARD"
    /\ last.from = "error"
    /\ cur_brew.status = "error"
    /\ cur_brew.error_message
    /\ controls[last.id] = 1

\* an iteration of a task that finds its brew in ERROR
TickFromError ==
    /\ last'.op \in TaskOps
    /\ ~last'.stale
    /\ cur_brew.status = "error"

\* the attempt of the iteration went through: the collector wrote its
\* sample, or the control loop stepped the strategy and the valve call, if
\* any, returned
AttemptSucceeded ==
    /\ ~last'.raised
    /\ \/ last'.op = "collector_tick" /\ last'.wrote
       \/ last'.op = "control_tick" /\ last'.stepped

\* the scale and the time series eventually answer: a sampling attempt
\* that can succeed again and again does succeed
SamplingEventuallySucceeds ==
    \A b \in BrewIds : SF_vars(CollectorTick(b, "ok"))

\* C12 as stated: the first attempt that succeeds on a brew in ERROR puts
\* the brew back to BREWING.
C12_SuccessReturnsToBrewing ==
    [][(TickFromError /\ AttemptSucceeded) => cur_brew'.status = "brewing"]_vars

\* C12: both tasks of a brew in ERROR are alive and every iteration of
\* them makes its attempt (the collector goes to the scale, the control
\* loop reads the time series and steps the strategy); an attempt that
\* succeeds puts the brew back to BREWING, or to COMPLETED when it is a
\* control step that returns STOP; and if sampling eventually succeeds, a
\* brew in ERROR eventually is no longer in ERROR.
C12_ErrorIsRetried ==
    /\ [][/\ TickFromError =>
              /\ last'.op = "collector_tick"
                   => last'.raised \/ last'.sampled \/ scale' = "disconnected"
              /\ last'.op = "control_tick" => last'.raised \/ last'.stepped
              /\ collectors'[last'.id] = 1
              /\ controls'[last'.id] = 1 \/ cur_brew'.status = "completed"
          /\ (TickFromError /\ AttemptSucceeded) =>
              cur_brew'.status = IF last'.cmd = "STOP" THEN "completed" ELSE "brewing"
          /\ (cur_brew.status = "error" /\ cur_brew' # NoBrew /\ cur_brew'.id = cur_brew.id)
              => /\ collectors'[cur_brew.id] = 1
                 /\ controls'[cur_brew.id] = 1 \/ cur_brew'.status = "completed"]_vars
    /\ SamplingEventuallySucceeds
         => ((cur_brew.status = "error") ~> (cur_brew.status # "error"))

\* the control loop finds the brew in ERROR, its step and the valve call
\* go through, and the brew is BREWING again
C12_Witness ==
    /\ last.op = "control_tick"
    /\ last.from = "error"
    /\ last.stepped
    /\ ~last.raised
    /\ last.cmd = "BACKWARD"
    /\ last.valve_calls = <<"step_backward">>
    /\ cur_brew.status = "brewing"
    /\ cur_brew.error_message

\* C13: a sampling attempt that finds the scale not connected and leaves it
\* not connected (the reconnect failed, by raising or by returning without a
\* connection) writes no sample and leaves the brew in ERROR, with the
\* collector alive for the next attempt.
C13_FailedReconnectIsError ==
    [][(/\ last'.op = "collector_tick"
        /\ ~last'.stale
        /\ cur_brew.status \in {"brewing", "error"}
        /\ scale # "connected"
        /\ scale' # "connected")
         => /\ ~last'.wrote
            /\ cur_brew'.status = "error"
            /\ collectors'[last'.id] = 1]_vars

C15_PauseResumePreserves ==
    [][/\ last'.op \in {"pause", "resume"} =>
            /\ strategy' = strategy
            /\ cur_brew'.id = cur_brew.id
            /\ UNCHANGED <<next_id, collectors, controls>>
       /\ (last'.op = "pause" /\ cur_brew.status = "brewing")
            => cur_brew'.status = "paused"
       /\ (last'.op = "resume" /\ cur_brew.status = "paused")
            => cur_brew'.status = "brewing"
       /\ (cur_brew.status = "paused" /\ cur_brew' # NoBrew) =>
            /\ strategy' = strategy
            /\ cur_brew'.id = cur_brew.id]_vars

\* a PID brew whose controller has stepped (integral and previous
\* timestamp set) was paused and is resumed
C15_Witness ==
    /\ last.op = "resume"
    /\ last.code = 200
    /\ last.from = "paused"
    /\ cur_brew.status = "brewing"
    /\ strategy.type = "pid"
    /\ strategy.integral # 0
    /\ strategy.prev_timestamp # None

\* C16: a control tick that steps the strategy and whose valve calls
\* return makes exactly the calls of the returned command: FORWARD one
\* step_forward (the valve is one step further), BACKWARD one
\* step_backward (one step back), NOOP no call (the valve stays), STOP no
\* step but return_to_start and then release (the valve is home).  A tick
\* whose FORWARD or BACKWARD call raises has made that one call and no
\* other.
C16_ValveFollowsCommand ==
    [][(last'.op = "control_tick" /\ last'.stepped) =>
         /\ ~last'.raised =>
              CASE last'.cmd = "FORWARD" ->
                     /\ last'.valve_calls = <<"step_forward">>
                     /\ valve_position' = valve_position + 1
                [] last'.cmd = "BACKWARD" ->
                     /\ last'.valve_calls = <<"step_backward">>
                     /\ valve_position' = valve_position - 1
                [] last'.cmd = "NOOP" ->
                     /\ last'.valve_calls = <<>>
                     /\ valve_position' = valve_position
                [] last'.cmd = "STOP" ->
                     /\ last'.valve_calls = <<"return_to_start", "release">>
                     /\ valve_position' = 0
         /\ (last'.raised /\ last'.cmd = "FORWARD")
              => last'.valve_calls = <<"step_forward">> /\ valve_position' = valve_position
         /\ (last'.raised /\ last'.cmd = "BACKWARD")
              => last'.valve_calls = <<"step_backward">> /\ valve_position' = valve_position]_vars

\* a control tick of a BREWING brew got FORWARD from its strategy and the
\* valve, which a request had moved back before, is home again
C16_Witness ==
    /\ last.op = "control_tick"
    /\ last.stepped
    /\ ~last.raised
    /\ last.from = "brewing"
    /\ last.cmd = "FORWARD"
    /\ last.valve_calls = <<"step_forward">>
    /\ valve_position = 0

\* C17: after every start that is accepted the strategy object of the brew
\* is a newly constructed one of the type asked for: integral, previous
\* error, previous timestamp, Kalman filter, plant model, delay buffer,
\* previous control, gains and adaptation state are the initial ones,
\* whatever the strategy object of the brew before had become; and the
\* brew is a new brew with a control loop of its own.
C17_StartConstructsFreshStrategy ==
    [][(last'.op = "start" /\ last'.code = 200) =>
         /\ strategy' = NewStrategy(cur_brew'.strategy)
         /\ strategy'.integral = 0
         /\ strategy'.prev_error = 0
         /\ strategy'.prev_timestamp = None
         /\ strategy'.delay_buffer = <<>>
         /\ strategy'.prev_control = 0
         /\ cur_brew'.id # cur_brew.id
         /\ controls'[cur_brew'.id] = 1]_vars

\* a PID brew stepped on a flow rate and fell into ERROR; a second PID
\* brew is started on top of it and its controller state is the initial one
C17_Witness ==
    /\ last.op = "start"
    /\ last.code = 200
    /\ last.from = "error"
    /\ last.dirty
    /\ cur_brew.id = 2
    /\ cur_brew.strategy = "pid"
    /\ strategy.type = "pid"
    /\ strategy.integral = 0
    /\ strategy.prev_timestamp = None

\* ---------------------------------------------------------------------
\* Properties of the strategies, continued (StratSpec)
\* ---------------------------------------------------------------------
\* a direct step call with a flow rate and a weight that is absent or
\* below the target
FlowStep ==
    /\ nsteps' = nsteps + 1
    /\ out'.flow # None
    /\ ~TargetReached(out'.weight)

\* C18: a step of the threshold strategy with a flow rate and the weight
\* below target, with error = target - flow: |error| <= epsilon gives
\* (NOOP, 2 * base interval), the boundary included; otherwise flow <=
\* target gives (FORWARD, base interval) and flow > target gives
\* (BACKWARD, base interval).  With target 0.050 and epsilon 0.008: 0.050
\* and 0.058 give NOOP, 0.059 gives BACKWARD, 0.041 gives FORWARD.  The
\* strategy has no state that a step changes.
C18_ThresholdStep ==
    [][(FlowStep /\ strat.type = "default") =>
         LET flow == out'.flow[1]
             error == COLDBREW_TARGET_FLOW_RATE - flow
         IN  /\ IF Abs(error) <= COLDBREW_EPSILON
                THEN /\ out'.cmd = "NOOP"
                     /\ out'.interval = 2 * COLDBREW_VALVE_INTERVAL_SECONDS
                ELSE IF flow <= COLDBREW_TARGET_FLOW_RATE
                THEN /\ out'.cmd = "FORWARD"
                     /\ out'.interval = COLDBREW_VALVE_INTERVAL_SECONDS
                ELSE /\ out'.cmd = "BACKWARD"
                     /\ out'.interval = COLDBREW_VALVE_INTERVAL_SECONDS
             /\ flow \in {50, 58} => out'.cmd = "NOOP"
             /\ flow = 59 => out'.cmd = "BACKWARD"
             /\ flow = 41 => out'.cmd = "FORWARD"
             /\ strat' = strat]_vars

\* the threshold strategy is stepped with the flow rate on the upper edge
\* of the dead band, 0.058, and holds the valve for the doubled interval
C18_Witness ==
    /\ strat.type = "default"
    /\ out.flow = Some(58)
    /\ out.weight = Some(1200)
    /\ out.cmd = "NOOP"
    /\ out.interval = 2 * COLDBREW_VALVE_INTERVAL_SECONDS

\* C19: in every strategy and every controller state, a step call with no
\* flow rate and a weight that is absent or below the target returns
\* (NOOP, base interval) and leaves the whole strategy state as it was:
\* previous timestamp, integral, previous error, filter estimate, delay
\* buffer, model state, previous control, gains and adaptation state.
C19_NoFlowIsNoop ==
    [][(/\ nsteps' = nsteps + 1
        /\ out'.flow = None
        /\ ~TargetReached(out'.weight))
         => /\ out'.cmd = "NOOP"
            /\ out'.interval = COLDBREW_VALVE_INTERVAL_SECONDS
            /\ strat' = strat]_vars

\* a Kalman-PID controller that has stepped on a flow rate is called, a
\* step interval or more later, with no flow rate and no weight: its
\* previous timestamp is still the one of the earlier step
C19_Witness ==
    /\ strat.type = "kalman_pid"
    /\ strat.prev_timestamp # None
    /\ strat.prev_timestamp[1] + COLDBREW_VALVE_INTERVAL_SECONDS < now
    /\ out.flow = None
    /\ out.weight = None
    /\ out.cmd = "NOOP"
    /\ out.interval = COLDBREW_VALVE_INTERVAL_SECONDS

\* the strategies that end their step with the deadband mapping of a PID
\* output
PidFamily ==
    {"pid", "kalman_pid", "adaptive_gain_scheduling", "smith_predictor_advanced"}

\* C20: a step of the PID, Kalman-PID, adaptive gain scheduling or Smith
\* predictor strategy with a flow rate and the weight below target maps
\* its controller output u to the command: |u| < 0.1 gives (NOOP, 2 * base
\* interval); otherwise u > 0 gives (FORWARD, base interval) and u < 0
\* gives (BACKWARD, base interval).  For the PID strategy u is the output
\* of _compute_pid for error = target - flow.
C20_DeadbandMapping ==
    [][(FlowStep /\ strat.type \in PidFamily) =>
         LET u == out'.u IN
         /\ IF Abs(u) < 100
            THEN /\ out'.cmd = "NOOP"
                 /\ out'.interval = 2 * COLDBREW_VALVE_INTERVAL_SECONDS
            ELSE IF u > 0
            THEN /\ out'.cmd = "FORWARD"
                 /\ out'.interval = COLDBREW_VALVE_INTERVAL_SECONDS
            ELSE /\ u < 0
                 /\ out'.cmd = "BACKWARD"
                 /\ out'.interval = COLDBREW_VALVE_INTERVAL_SECONDS
         /\ strat.type = "pid" =>
              u = ComputePid(strat, COLDBREW_TARGET_FLOW_RATE - out'.flow[1],
                             StepDt(strat, now)).output]_vars

\* a PID controller with kp = 12.5 and ki = 0 is stepped with flow 0.058:
\* its output is -0.1, on the edge of the dead band, and the command is
\* BACKWARD for the base interval
C20_Witness ==
    /\ strat.type = "pid"
    /\ out.flow = Some(58)
    /\ out.weight = Some(1200)
    /\ out.u = -100
    /\ out.cmd = "BACKWARD"
    /\ out.interval = COLDBREW_VALVE_INTERVAL_SECONDS

\* ---------------------------------------------------------------------
\* Properties of the controllers' internals (StratSpec)
\* ---------------------------------------------------------------------
\* min(hi, max(lo, v))
Clamp(v, lo, hi) == Max(lo, Min(hi, v))

\* the error the single _compute_pid call of a step is made with: the
\* target minus the flow rate, or minus the filtered flow rate
PidError(s, current_flow_rate) ==
    IF s.type = "kalman_pid"
    THEN COLDBREW_TARGET_FLOW_RATE - KalmanUpdate(s.kalman, current_flow_rate).x
    ELSE COLDBREW_TARGET_FLOW_RATE - current_flow_rate[1]

\* C21: after the control computation of a PID, Kalman-PID or adaptive
\* step with error e and time step dt, the integral accumulator equals
\* clamp(previous integral + e * dt, -integral_limit, +integral_limit).
C21_AntiWindup ==
    [][(FlowStep /\ strat.type \in {"pid", "kalman_pid", "adaptive_gain_scheduling"}) =>
         strat'.integral =
             Clamp(strat.integral + PidError(strat, out'.flow) * StepDt(strat, now),
                   -IntegralLimit, IntegralLimit)]_vars

\* C22: the first present measurement passed to update on the filter of a
\* newly constructed Kalman-PID strategy is returned exactly and leaves
\* x = measurement, p = r and the filter marked initialized.
C22_FirstMeasurementExact ==
    [][(FlowStep /\ strat.type = "kalman_pid" /\ strat = NewStrategy("kalman_pid")) =>
         /\ strat'.kalman.x = out'.flow[1]
         /\ strat'.kalman.p = KalmanR
         /\ strat'.kalman.is_initialized]_vars

\* the half of C22 about reset(): whatever state the filter of the
\* strategy is in, reset() followed by update with a present measurement
\* leaves x = measurement, p = r and the filter marked initialized
C22_FirstAfterReset ==
    strat.type = "kalman_pid" =>
        \A m \in StrategyFlows \ {None} :
            KalmanUpdate(KalmanReset(strat.kalman), m)
                = [x |-> m[1], p |-> KalmanR, is_initialized |-> TRUE]

\* the total predicted cost over the horizon of each of the nine
\* candidates of an MPC tick, by index in ascending-delta order
CandidateCosts(s, flow, dt) ==
    [i \in 1..Len(MpcDeltas) |->
        MpcCost(s, 0, flow * 1000, MpcCandidate(s.prev_control, i),
                s.prev_control, Alpha(s.plant_time_constant, dt))]

\* C23: in each MPC tick with a flow rate, the chosen action u is
\* prev_control + delta clamped to [output_min, output_max] for one of
\* the nine deltas, no candidate has a lower total predicted cost, and
\* every candidate evaluated before it (a more negative delta) has a
\* strictly higher cost: among candidates of exactly equal minimum cost
\* the first in ascending-delta order is chosen.
C23_MpcSelection ==
    [][(FlowStep /\ strat.type = "mpc") =>
         LET cost == CandidateCosts(strat, out'.flow[1], StepDt(strat, now))
         IN  \E i \in 1..9 :
                 /\ MpcDeltas[i] \in {-2000, -1000, -500, -250, 0, 250, 500, 1000, 2000}
                 /\ out'.u = Clamp(strat.prev_control + MpcDeltas[i], OutputMin, OutputMax)
                 /\ \A j \in 1..9 : cost[i] <= cost[j]
                 /\ \A j \in 1..(i - 1) : cost[j] > cost[i]]_vars

\* an MPC controller whose cost weights are all 0, so that the nine
\* candidates tie exactly, has stepped twice: each time the most negative
\* delta won, and the action went from 0 to -2 to -4
C23_Witness ==
    /\ strat.type = "mpc"
    /\ strat.q_error = 0 /\ strat.q_control = 0 /\ strat.q_delta = 0
    /\ out.flow # None
    /\ out.u = -4000
    /\ out.cmd = "BACKWARD"

\* C24 as stated: two step calls on the same MPC controller snapshot with
\* the same flow rate and weight return the same (command, interval),
\* whatever lies outside the snapshot and the inputs: here the reading of
\* time.time() at the call, now or one step gap later.
C24_SameSnapshotSameResult ==
    strat.type = "mpc" =>
        \A f \in StrategyFlows, w \in WeightInputs, g \in StepGaps :
            LET first == MPCStep(strat, f, w, now)
                second == MPCStep(strat, f, w, now + g)
            IN  /\ first.cmd = second.cmd
                /\ first.interval = second.interval

\* the snapshot s with its previous timestamp, if it has one, moved to 0
AtTimeZero(s) ==
    [s EXCEPT !.prev_timestamp = IF @ = None THEN None ELSE Some(0)]

\* C24: an MPC step depends on the clock only through the time elapsed
\* since the previous step that had a flow rate.  The step taken at
\* time.time() = now returns the (command, interval), and leaves the
\* prev_control and model state, of a step call made on the same snapshot
\* with the same flow rate and weight at any other clock reading that is
\* the same time after the snapshot's previous timestamp.
C24_DeterminedUpToElapsedTime ==
    [][(nsteps' = nsteps + 1 /\ strat.type = "mpc") =>
         LET elapsed == IF strat.prev_timestamp = None THEN 0
                        ELSE now - strat.prev_timestamp[1]
             again == MPCStep(AtTimeZero(strat), out'.flow, out'.weight, elapsed)
         IN  /\ out'.cmd = again.cmd
             /\ out'.interval = again.interval
             /\ strat'.prev_control = again.s.prev_control
             /\ strat'.model_state = again.s.model_state]_vars

\* an MPC controller that weighs the tracking error alone, with a plant
\* time constant of 1500 s over 3 steps, stepped on flow 0.041 (FORWARD, action 2.0)
\* and, two step intervals later, on flow 0.058: FORWARD again, where the
\* same call one interval earlier would have returned NOOP
C24_Witness ==
    /\ strat.type = "mpc"
    /\ strat.plant_time_constant = 1500
    /\ nsteps = 2
    /\ out.flow = Some(58)
    /\ out.cmd = "FORWARD"
    /\ strat.prev_timestamp = Some(120)
    /\ MPCStep([strat EXCEPT !.prev_control = 2000, !.prev_timestamp = Some(0)],
               Some(58), None, 60).cmd = "NOOP"

\* the plant model of an MPC controller in state s, stepped on a flow
\* rate at clock reading current_time, advanced with the action u:
\* alpha * model_state + (1 - alpha) * plant_gain * u, the model state
\* being the flow rate itself on the first step with flow
ModelAdvancedWith(s, current_flow_rate, current_time, u) ==
    LET alpha == Alpha(s.plant_time_constant, StepDt(s, current_time))
        from == IF s.prev_timestamp = None THEN current_flow_rate[1]
                ELSE s.model_state
    IN  TDiv(alpha * from + (1000 - alpha) * TDiv(PlantGain * u, 1000), 1000)

\* C25 as stated: after each MPC step with a flow rate, prev_control is
\* the action selected in that tick and the plant model state left for
\* the next tick has been advanced with that action.
C25_ModelAdvancedWithSelected ==
    [][(FlowStep /\ strat.type = "mpc") =>
         /\ strat'.prev_control = out'.u
         /\ strat'.model_state =
                ModelAdvancedWith(strat, out'.flow, now, strat'.prev_control)]_vars

\* C25: after each MPC step with a flow rate, prev_control is the action
\* selected in that tick (only that first action of the horizon is kept),
\* and the plant model state has been advanced, over the dt of this tick,
\* with the prev_control the tick started from: the action selected by
\* the previous tick with flow, or 0.0 on the first.  The action selected
\* in a tick enters the plant model at the next tick with flow.
C25_RecedingHorizon ==
    [][(FlowStep /\ strat.type = "mpc") =>
         /\ strat'.prev_control = out'.u
         /\ out'.u = SolveMpc(strat, out'.flow[1], StepDt(strat, now))
         /\ strat'.model_state =
                ModelAdvancedWith(strat, out'.flow, now, strat.prev_control)
         /\ strat'.is_initialized]_vars

\* an MPC controller whose candidates all tie has stepped twice on a flow
\* rate: it selected -2.0 and then -4.0, prev_control is -4.0, and its
\* plant model holds the response to -2.0, the action of the first step
C25_Witness ==
    /\ strat.type = "mpc"
    /\ strat.q_error = 0
    /\ nsteps = 2
    /\ out.flow # None
    /\ out.u = -4000
    /\ strat.prev_control = -4000
    /\ strat.model_state = TDiv((1000 - Alpha(10, 60)) * TDiv(PlantGain * (-2000), 1000), 1000)
    /\ strat.model_state < 0

\* ---------------------------------------------------------------------
\* Properties of adaptive gain scheduling (AdaptSpec)
\* ---------------------------------------------------------------------
\* a direct step call on an adaptive gain scheduling strategy with a flow
\* rate and the weight below target
AdaptiveTick ==
    FlowStep /\ strat.type = "adaptive_gain_scheduling"

\* C26 as stated: in each tick with a flow rate, if |error| > 0.01 has
\* held for more than 5 consecutive ticks, the adaptation factor goes up
\* by adaptation_rate, capped at 2.0; in every other tick it goes down by
\* twice adaptation_rate, not below 1.0.
C26_AdaptationLaw ==
    [][AdaptiveTick =>
         IF LargeError(out'.flow[1]) /\ out'.run > 5
         THEN strat'.adaptation_factor =
                  Min(2000, strat.adaptation_factor + strat.adaptation_rate)
         ELSE strat'.adaptation_factor =
                  Max(1000, strat.adaptation_factor - 2 * strat.adaptation_rate)]_vars

\* C26: in each tick with a flow rate, the factor first falls to 1.0 if
\* the flow region differs from that of the previous tick.  Then: if
\* |error| > 0.01 and it has been so for more than 5 consecutive ticks in
\* this region, the factor goes up by adaptation_rate, capped at 2.0; if
\* |error| > 0.01 in a run of 5 or fewer, the factor stays as it is; if
\* |error| <= 0.01, the factor goes down by twice adaptation_rate, not
\* below 1.0.  The sustained-error counter is the length of that run.
C26_AdaptationLawByRegion ==
    [][AdaptiveTick =>
         LET flow == out'.flow[1]
             start == IF DetermineRegion(flow) # strat.current_region
                      THEN 1000 ELSE strat.adaptation_factor
         IN  /\ strat'.sustained_error_count = out'.run_in_region
             /\ strat'.adaptation_rate = strat.adaptation_rate
             /\ IF LargeError(flow) /\ out'.run_in_region > 5
                THEN /\ start = strat.adaptation_factor
                     /\ strat'.adaptation_factor = Min(2000, start + strat.adaptation_rate)
                ELSE IF LargeError(flow)
                THEN strat'.adaptation_factor = start
                ELSE strat'.adaptation_factor = Max(1000, start - 2 * strat.adaptation_rate)]_vars

\* a strategy with adaptation_rate 0.3 was stepped eight times on flow
\* 0.035 (the factor rose to 1.9 in ticks 6 to 8), once on flow 0.050
\* (the factor fell to 1.3) and again on flow 0.035: in this first tick of
\* a new large-error run the factor is still 1.3
C26_Witness ==
    /\ strat.type = "adaptive_gain_scheduling"
    /\ strat.adaptation_rate = 300
    /\ out.flow = Some(35)
    /\ out.run_in_region = 1
    /\ strat.sustained_error_count = 1
    /\ strat.adaptation_factor = 1300

\* C27: in any tick with a flow rate whose region (low, medium or high
\* flow) differs from the region of the previous tick, the adaptation
\* factor is reset to 1 and the sustained-error counter to 0 before the
\* tick is counted: after the tick the region is the new one, the factor
\* is 1, the gains are the base gains of the new region, and the counter
\* is 1 if this tick has a large error and 0 otherwise.  No part of an
\* earlier run of large-error ticks is carried over.
C27_RegionChangeResets ==
    [][(AdaptiveTick /\ DetermineRegion(out'.flow[1]) # strat.current_region) =>
         LET region == DetermineRegion(out'.flow[1]) IN
         /\ strat'.current_region = region
         /\ strat'.adaptation_factor = 1000
         /\ strat'.sustained_error_count = IF LargeError(out'.flow[1]) THEN 1 ELSE 0
         /\ strat'.kp = BaseGains(region).kp
         /\ strat'.ki = BaseGains(region).ki
         /\ strat'.kd = BaseGains(region).kd]_vars

\* the seventh tick of an unbroken run of large errors is the first one
\* in the medium region: the counter restarts at 1 and the factor is 1
C27_Witness ==
    /\ strat.type = "adaptive_gain_scheduling"
    /\ out.flow = Some(35)
    /\ out.run = 7
    /\ out.run_in_region = 1
    /\ strat.current_region = "med"
    /\ strat.sustained_error_count = 1
    /\ strat.adaptation_factor = 1000

\* C28: for every adaptation_rate >= 0 and every sequence of flow rates,
\* the adaptation factor is within [1.0, 2.0] after every tick.
C28_FactorWithinBounds ==
    /\ strat.adaptation_rate >= 0
    /\ strat.adaptation_factor >= 1000
    /\ strat.adaptation_factor <= 2000

\* a strategy with adaptation_rate 0.6 has reached the cap: after seven
\* ticks of large error the factor is 2.0, where 1.6 + 0.6 would be 2.2
C28_Witness ==
    /\ strat.type = "adaptive_gain_scheduling"
    /\ strat.adaptation_rate = 600
    /\ strat.sustained_error_count = 7
    /\ strat.adaptation_factor = 2000

\* ---------------------------------------------------------------------
\* Properties of the Smith predictor (SmithSpec)
\* ---------------------------------------------------------------------
\* Python's round(num / den) for num, den > 0: to the nearest integer, a
\* tie going to the even one
Round(num, den) ==
    LET q == num \div den
        twice == 2 * (num % den)
    IN  IF twice > den THEN q + 1
        ELSE IF twice < den THEN q
        ELSE IF q % 2 = 0 THEN q ELSE q + 1

\* C29 as stated: the delay buffer has the fixed capacity
\* max(1, round(dead_time / valve_interval)) and never holds more actions
\* than that.
C29_CapacityRounded ==
    strat.type = "smith_predictor_advanced" =>
        /\ strat.delay_samples
              = Max(1, Round(strat.dead_time, COLDBREW_VALVE_INTERVAL_SECONDS))
        /\ Len(strat.delay_buffer) <= strat.delay_samples

\* C29: the delay buffer has the fixed capacity
\* max(1, int(dead_time / valve_interval)), the quotient cut off and not
\* rounded, and after every tick it holds no more actions than that.
C29_CapacityTruncated ==
    strat.type = "smith_predictor_advanced" =>
        /\ strat.delay_samples >= 1
        /\ strat.delay_samples * COLDBREW_VALVE_INTERVAL_SECONDS
              <= Max(strat.dead_time, COLDBREW_VALVE_INTERVAL_SECONDS)
        /\ strat.dead_time < (strat.delay_samples + 1) * COLDBREW_VALVE_INTERVAL_SECONDS
        /\ Len(strat.delay_buffer) <= strat.delay_samples

\* a predictor with dead_time 100 s, for which 100 / 60 rounds to 2, has
\* made three model updates: its buffer holds 1 action, the latest
C29_Witness ==
    /\ strat.type = "smith_predictor_advanced"
    /\ strat.dead_time = 100
    /\ nsteps = 4
    /\ out.flow # None
    /\ strat.delay_samples = 1
    /\ Len(strat.delay_buffer) = 1

\* a direct step call on a Smith predictor with a flow rate (the weight
\* is absent)
PredictorTick ==
    /\ nsteps' = nsteps + 1
    /\ strat.type = "smith_predictor_advanced"
    /\ out'.flow # None

\* the controller state s without its monitoring filter
WithoutFilter(s) ==
    [s EXCEPT !.kalman = KalmanFilter(COLDBREW_TARGET_FLOW_RATE, KalmanInitialError)]

\* states the monitoring filter of another run can be in
OtherFilters ==
    {[x |-> x, p |-> p, is_initialized |-> TRUE] :
        x \in {41, 50, 59}, p \in {KalmanR, KalmanInitialError}}

\* the step just taken and the step of a run whose filter is in state k
\* and whose measurement is flow_rate agree on the returned (command,
\* interval), on the model output and on all controller state but the
\* filter
SameControl(k, flow_rate) ==
    LET other == SmithStep([strat EXCEPT !.kalman = k], flow_rate, out'.weight, now)
    IN  /\ other.cmd = out'.cmd
        /\ other.interval = out'.interval
        /\ other.s.model_output = strat'.model_output
        /\ WithoutFilter(other.s) = WithoutFilter(strat')

\* C30 as stated: the control error of each tick is target minus the
\* model output, and a run that differs only in the values of its present
\* flow measurements produces the same model output and command in every
\* tick.
C30_MeasurementValuesIrrelevant ==
    [][PredictorTick =>
         /\ strat'.prev_error = COLDBREW_TARGET_FLOW_RATE - strat'.model_output
         /\ \A k \in OtherFilters \cup {strat.kalman}, f \in SmithFlows \ {None} :
                SameControl(k, f)]_vars

\* C30: the control error of each tick is target minus the model output.
\* The first present measurement is what the model output starts from;
\* every later measurement goes to the filter alone.  A run that differs
\* only in the values of the present measurements after the first one
\* produces the same model output, command and interval in every tick.
C30_LaterMeasurementsMonitoringOnly ==
    [][PredictorTick =>
         /\ strat'.prev_error = COLDBREW_TARGET_FLOW_RATE - strat'.model_output
         /\ strat.prev_timestamp = None => strat'.model_output = out'.flow[1]
         /\ \A k \in OtherFilters \cup {strat.kalman} :
                /\ SameControl(k, out'.flow)
                /\ strat.prev_timestamp # None =>
                      \A f \in SmithFlows \ {None} : SameControl(k, f)]_vars

\* a predictor with kp = 12.5 and ki = 0 was first stepped on flow 0.041
\* and is now stepped on 0.059, above the target: the filter has followed
\* the measurement, yet the command is FORWARD, from the model output
C30_Witness ==
    /\ strat.type = "smith_predictor_advanced"
    /\ strat.kp = 12500
    /\ nsteps = 2
    /\ out.flow = Some(59)
    /\ strat.kalman.x > COLDBREW_TARGET_FLOW_RATE
    /\ strat.model_output < COLDBREW_TARGET_FLOW_RATE
    /\ strat.prev_error = COLDBREW_TARGET_FLOW_RATE - strat.model_output
    /\ out.cmd = "FORWARD"

\* ---------------------------------------------------------------------
\* Properties of the flow rate computation (FlowSpec)
\* ---------------------------------------------------------------------
\* the readings are in time order
TimeOrdered(readings) ==
    \A i \in 1..(Len(readings) - 1) : readings[i][1] <= readings[i + 1][1]

\* rate (thousandths of g/s) is the quotient weight_diff / time_diff at
\* the resolution of the model: the quotient truncated toward zero
IsQuotient(rate, weight_diff, time_diff) ==
    /\ Abs(weight_diff * 1000 - rate * time_diff) < time_diff
    /\ Abs(rate * time_diff) <= Abs(weight_diff * 1000)

\* C31: the flow rate of 0 or 1 readings is None; the flow rate of two or
\* more time-ordered readings with first (t0, w0) and last (t1, w1) is
\* (w1 - w0) / (t1 - t0) when t1 > t0 and None when t1 <= t0
C31_FlowEstimate ==
    estimator.called /\ TimeOrdered(estimator.readings) =>
        LET readings == estimator.readings
            n == Len(readings)
        IN  /\ n < 2 => estimator.rate = None
            /\ n >= 2 =>
                LET t0 == readings[1][1]
                    w0 == readings[1][2]
                    t1 == readings[n][1]
                    w1 == readings[n][2]
                IN  /\ t1 <= t0 => estimator.rate = None
                    /\ t1 > t0 =>
                        /\ estimator.rate # None
                        /\ IsQuotient(estimator.rate[1], w1 - w0, t1 - t0)

\* three readings, stored out of time order, whose first and last give a
\* rate that no pair of neighbours gives
C31_Witness ==
    /\ estimator.called
    /\ Len(estimator.readings) = 3
    /\ estimator.points # estimator.readings
    /\ TimeOrdered(estimator.readings)
    /\ estimator.rate = Some(50)
    /\ CalculateFlowRateLastPair(estimator.readings) # Some(50)
    /\ CalculateFlowRateLastPair(SubSeq(estimator.readings, 1, 2)) # Some(50)

\* the readings the derivative is taken of are always in time order, and
\* readings of the same time keep the order of the query
C31_ReadingsSorted ==
    estimator.called =>
        /\ TimeOrdered(estimator.readings)
        /\ Len(estimator.readings) = Len(estimator.points)
        /\ \A x \in Samples :
               Cardinality({i \in DOMAIN estimator.points : estimator.points[i] = x})
               = Cardinality({i \in DOMAIN estimator.readings : estimator.readings[i] = x})

\* ---------------------------------------------------------------------
\* Properties of the retry helper (RetrySpec, RetryFairSpec)
\* ---------------------------------------------------------------------
\* the exception classes of exceptions.py that derive from PermanentError
PermanentErrorClasses ==
    {"ScaleNotFoundError", "ScaleBatteryLowError", "ValveOperationError"}

\* the positions of the invocations in the history of the call
Invocations == {i \in DOMAIN retry.trace : retry.trace[i].op = "invoke"}

\* C32: when an invocation of the operation raises a PermanentError, low
\* scale battery included, the call does nothing more: no sleep, no
\* further invocation, and that error is the one the caller gets
C32_PermanentNotRetried ==
    \A i \in Invocations :
        retry.trace[i].outcome \in PermanentErrorClasses =>
            /\ i = Len(retry.trace)
            /\ retry.pc = "raised"
            /\ retry.raised = retry.trace[i].outcome

\* a call that was retried once and then met a low scale battery
C32_Witness ==
    /\ retry.pc = "raised"
    /\ retry.raised = "ScaleBatteryLowError"
    /\ retry.max_retries = 3
    /\ Len(retry.trace) = 3
    /\ retry.trace[1].outcome = "ScaleReadError"

\* the call is over: it has returned the result or raised
RetryDone == retry.pc \in {"returned", "raised"}

\* the number of invocations made before position i of the history
InvocationsBefore(i) == Cardinality({j \in Invocations : j < i})

\* the invocations are bounded, a success ends the call, every failed
\* attempt is followed by a sleep of base_delay * 2^attempt and every
\* invocation but the first comes after such a sleep, and a call whose
\* max_retries attempts all failed raises the error of the last one
C33_BackoffShape ==
    LET trace == retry.trace IN
    /\ Cardinality(Invocations) <= retry.max_retries
    /\ \A i \in Invocations :
           /\ trace[i].outcome = "ok" =>
                  i = Len(trace) /\ retry.pc = "returned" /\ retry.raised = ""
           /\ i > 1 => trace[i - 1].op = "sleep"
    /\ retry.pc = "returned" =>
           trace # <<>> /\ trace[Len(trace)].outcome = "ok"
    /\ \A i \in DOMAIN trace :
           trace[i].op = "sleep" =>
               /\ i > 1
               /\ trace[i - 1].op = "invoke"
               /\ trace[i - 1].outcome \notin {"ok"} \cup PermanentErrorClasses
               /\ trace[i].delay
                  = retry.base_delay * (2 ^ (InvocationsBefore(i) - 1))
    /\ \A i \in Invocations :
           /\ trace[i].outcome \notin {"ok"} \cup PermanentErrorClasses
           /\ i < Len(trace) - 1 \/ retry.pc \in {"invoke", "raised"}
           => i < Len(trace) /\ trace[i + 1].op = "sleep"
    /\ /\ retry.pc = "raised"
       /\ Cardinality(Invocations) = retry.max_retries
       /\ retry.max_retries > 0
       /\ \A i \in Invocations : trace[i].outcome \notin PermanentErrorClasses
       => LET last_i == CHOOSE i \in Invocations : \A j \in Invocations : j <= i
          IN  retry.raised = trace[last_i].outcome

\* C33: the retry call always terminates, having invoked the operation at
\* most max_retries times, returned at the first success, slept
\* base_delay * 2^attempt after failed attempt number attempt, and raised
\* the last error when every attempt failed
C33_BackoffTerminates == []C33_BackoffShape /\ <>RetryDone

\* three attempts that failed with different errors, the sleeps doubling
\* from a base of 2 s, and the last error raised
C33_Witness ==
    /\ retry.pc = "raised"
    /\ retry.max_retries = 3
    /\ retry.base_delay = 2
    /\ Cardinality(Invocations) = 3
    /\ retry.trace[1].outcome = "ScaleReadError"
    /\ retry.trace[2].delay = 2
    /\ retry.trace[4].delay = 4
    /\ retry.trace[5].outcome = "OSError"
    /\ retry.raised = "OSError"

\* ---------------------------------------------------------------------
\* Properties of the request handlers and tasks (Spec), continued
\* ---------------------------------------------------------------------
\* the endpoints whose brew_id parameter is a MatchBrewId
GuardedOps == {"stop", "release", "valve_forward", "valve_backward"}

\* C34: a stop, release or valve step request acts only with the id of
\* the current brew; a request whose id does not match (no brew, no id,
\* another id) is answered 422 and changes neither the brew nor the
\* valve; after a successful stop or release the id it was given does
\* not match any more, and no later brew gets that id again
C34_BrewIdGuard ==
    [][/\ last'.op \in GuardedOps =>
              /\ cur_brew # NoBrew
              /\ last'.id = cur_brew.id
       /\ last'.op = "brew_id_must_match" =>
              /\ last'.code = 422
              /\ last'.valve_calls = <<>>
              /\ cur_brew' = cur_brew
              /\ valve_position' = valve_position
              /\ scale' = scale
       /\ last'.op \notin GuardedOps \cup {"kill", "control_tick"} =>
              valve_position' = valve_position
       /\ last'.op \in {"stop", "release"} /\ last'.code = 200 =>
              /\ cur_brew' = NoBrew
              /\ last'.id > 0
              /\ last'.id <= next_id'
       /\ cur_brew' # NoBrew /\ cur_brew'.id # cur_brew.id =>
              /\ cur_brew'.id = next_id'
              /\ next_id' > next_id
       /\ next_id' >= next_id
      ]_vars

\* a request is rejected after a brew was stopped or released with the
\* valve away from its start position, and the valve is still there
C34_Witness ==
    /\ last.op = "brew_id_must_match"
    /\ last.code = 422
    /\ cur_brew = NoBrew
    /\ scale = "None"
    /\ next_id >= 1
    /\ valve_position # 0

\* C35: a pause of a PAUSED brew answers 200 "already paused" and leaves
\* it PAUSED; a resume of a BREWING brew answers 200 "already brewing"
\* and leaves it BREWING; no pause or resume changes the brew id
C35_PauseResumeIdempotent ==
    [][/\ last'.op = "pause" /\ cur_brew # NoBrew /\ cur_brew.status = "paused" =>
              /\ last'.code = 200
              /\ last'.status = "already paused"
              /\ cur_brew' = cur_brew
       /\ last'.op = "resume" /\ cur_brew # NoBrew /\ cur_brew.status = "brewing" =>
              /\ last'.code = 200
              /\ last'.status = "already brewing"
              /\ cur_brew' = cur_brew
       /\ last'.op \in {"pause", "resume"} =>
              /\ cur_brew'.id = cur_brew.id
              /\ next_id' = next_id
      ]_vars

\* a brew was paused a second time
C35_Witness ==
    /\ last.op = "pause"
    /\ last.status = "already paused"
    /\ last.from = "paused"
    /\ cur_brew.status = "paused"
    /\ cur_brew.id = 2

\* a brew was resumed while it was brewing
C35_WitnessResume ==
    /\ last.op = "resume"
    /\ last.status = "already brewing"
    /\ cur_brew.status = "brewing"

\* C36: a stop or release with the id of the current brew, made after
\* the valve was stepped, calls return_to_start before release, so that
\* the valve is at its start position when the brew is cleared
C36_StopHomesValve ==
    [][last'.op \in {"stop", "release"} /\ cur_brew # NoBrew
       /\ last'.id = cur_brew.id /\ valve_position # 0 =>
           /\ last'.valve_calls = <<"return_to_start", "release">>
           /\ valve_position' = 0
      ]_vars

\* what stop and release do instead: they release the valve where it
\* stands, and clear the brew unless the scale object is missing
C36_StopLeavesValve ==
    [][last'.op \in {"stop", "release"} =>
           /\ last'.valve_calls = <<"release">>
           /\ valve_position' = valve_position
           /\ last'.code = 200 => cur_brew' = NoBrew
      ]_vars

\* no brew is left and the valve is away from its start position
C36_ValveLeftOpen ==
    /\ last.op = "stop"
    /\ last.code = 200
    /\ cur_brew = NoBrew
    /\ valve_position # 0

\* the states the claim lets a start through: no brew, or a brew that is
\* COMPLETED or ERROR
Startable == cur_brew = NoBrew \/ cur_brew.status \in {"completed", "error"}

\* the step is a start that put a new brew in place: a new id, BREWING,
\* and one new collector and one new control loop bound to that id
Replaced ==
    /\ last'.code = 200
    /\ cur_brew' # NoBrew
    /\ cur_brew'.id = next_id' /\ next_id' = next_id + 1
    /\ cur_brew'.id # cur_brew.id
    /\ cur_brew'.status = "brewing"
    /\ collectors' = [collectors EXCEPT ![cur_brew'.id] = 1]
    /\ controls' = [controls EXCEPT ![cur_brew'.id] = 1]
    /\ collectors[cur_brew'.id] = 0 /\ controls[cur_brew'.id] = 0

\* the tasks of a brew that is no longer current sample nothing, step no
\* strategy and move no valve
ReplacedTasksInert ==
    last'.op \in TaskOps /\ last'.id # cur_brew.id =>
        /\ ~last'.sampled /\ ~last'.wrote /\ ~last'.stepped
        /\ last'.valve_calls = <<>>
        /\ valve_position' = valve_position
        /\ cur_brew' = cur_brew

\* C37 as stated: a start that finds no brew or a COMPLETED or ERROR brew
\* replaces it by a new BREWING brew with fresh tasks, whose predecessor's
\* tasks do nothing more; a start in any other state, an acquired IDLE
\* brew included, is answered 409 and changes nothing
C37_StartGate ==
    [][/\ last'.op = "start" =>
              IF Startable THEN Replaced
              ELSE last'.code = 409 /\ cur_brew' = cur_brew
       /\ ReplacedTasksInert
      ]_vars

\* C37 with the scale taken into account: a start that finds a BREWING
\* or PAUSED brew is answered 409 at once; any other start first makes
\* sure the scale is connected and is answered 503, with the brew and
\* the tasks unchanged, when it is not; with the scale connected it
\* replaces no brew or a COMPLETED or ERROR brew as stated and answers
\* 409 to an IDLE brew; the tasks of a replaced brew do nothing more
C37_StartGateWithScale ==
    [][/\ last'.op = "start" =>
              /\ last'.code \in {200, 409, 503}
              /\ last'.code = 200 => Startable /\ scale' = "connected" /\ Replaced
              /\ last'.code # 200 =>
                     UNCHANGED <<cur_brew, next_id, collectors, controls, strategy>>
              /\ cur_brew.status \in {"brewing", "paused"} =>
                     last'.code = 409 /\ scale' = scale
              /\ cur_brew.status \notin {"brewing", "paused"} =>
                     /\ scale' # "connected" <=> last'.code = 503
                     /\ scale' = "connected" /\ Startable => last'.code = 200
                     /\ scale' = "connected" /\ ~Startable => last'.code = 409
       /\ ReplacedTasksInert
      ]_vars

\* a brew in ERROR is replaced by the second brew while both of its
\* tasks are still alive
C37_Witness ==
    /\ last.op = "start"
    /\ last.code = 200
    /\ last.from = "error"
    /\ cur_brew.id = 2
    /\ cur_brew.status = "brewing"
    /\ collectors = <<1, 1>>
    /\ controls = <<1, 1>>

\* a start is refused for the scale while an acquired brew is IDLE
C37_WitnessIdleNoScale ==
    /\ last.op = "start"
    /\ last.code = 503
    /\ last.from = "idle"
    /\ cur_brew.status = "idle"

\* the step is an iteration of the task `op` of the current brew that
\* went through without an exception
TickSucceeded(op) ==
    /\ last'.op = op
    /\ last'.id = cur_brew.id
    /\ ~last'.stale
    /\ ~last'.raised

\* the last thing that happened was an iteration of the task `op` of the
\* current brew that raised and set the brew to ERROR
JustFailed(op) ==
    /\ last.op = op
    /\ last.raised
    /\ cur_brew # NoBrew
    /\ last.id = cur_brew.id
    /\ cur_brew.status = "error"

\* C38: when an iteration of one task has set the brew to ERROR, a
\* successful iteration of the other task does not set it back to
\* BREWING
C38_ErrorNotClearedByOtherTask ==
    [][/\ JustFailed("control_tick") /\ TickSucceeded("collector_tick")
              => cur_brew'.status # "brewing"
       /\ JustFailed("collector_tick") /\ TickSucceeded("control_tick")
              => cur_brew'.status # "brewing"
      ]_vars

\* the brew is BREWING again after the collector wrote a sample, the
\* control loop having failed just before
C38_ErrorCleared ==
    /\ last.op = "collector_tick"
    /\ last.from = "error"
    /\ last.wrote
    /\ cur_brew.status = "brewing"
    /\ cur_brew.error_message

ReturnCalled ==
    /\ motor'.op = "return_to_start"
    /\ motor'.calls = motor.calls + 1

\* C40: return_to_start, after any sequence of step_forward and
\* step_backward calls since the last start position, the empty sequence
\* and mixed directions included, completes without error, leaves the
\* valve at the start position and leaves the breadcrumbs empty
C40_ReturnToStart ==
    [][ReturnCalled =>
           /\ motor'.raised = ""
           /\ motor'.position = motor.start
           /\ motor'.breadcrumbs = <<>>
      ]_vars

\* the part that holds: the first return_to_start of a valve that has
\* only been stepped in one direction, at least once, brings it back
C40_FirstReturnOneDirection ==
    [][ReturnCalled /\ Len(motor.breadcrumbs) = 1 =>
           /\ motor'.raised = ""
           /\ motor'.position = motor.start
      ]_vars

\* return_to_start never empties the dict of the steps, so every call
\* after the first one that completed starts from counts that are stale
C40_BreadcrumbsNeverCleared ==
    [][\A d \in StepperDirections :
           Breadcrumb(motor'.breadcrumbs, d) >= Breadcrumb(motor.breadcrumbs, d)
      ]_vars

\* return_to_start has completed and the valve is not where it started
C40_NotAtStart ==
    /\ motor.op = "return_to_start"
    /\ motor.raised = ""
    /\ motor.calls = 4
    /\ motor.position = -1
    /\ motor.breadcrumbs # <<>>

====
